---- MODULE Spec2Model ----
(***************************************************************************)
(* Model of the pips solver: the Board data model of                       *)
(* src/pips_solver/structures.py, the backtracking search of               *)
(* src/pips_solver/solver.py, the loader of src/pips_solver/parser.py and  *)
(* the validation and retry loop of src/pips_solver/extract.py.            *)
(*                                                                         *)
(* A Position is the tuple <<row, col>>.  A Domino is the record           *)
(* [pos1, pos2, dots1, dots2].  A Python Optional is a sequence of length  *)
(* zero (None) or one (the value).  board.state is a function whose        *)
(* DOMAIN is the set of keys of the dict.                                  *)
(***************************************************************************)
EXTENDS Integers, Sequences, FiniteSets, TLC

VARIABLES
    valid_positions,    \* Board.valid_positions
    regions,            \* Board.regions, a list of Region records
    available_dominoes, \* Board.available_dominoes, Optional list of pairs
    state,              \* Board.state
    placed_dominoes,    \* Board.placed_dominoes
    all_dominoes,       \* PipsSolver.all_dominoes
    used_dominoes,      \* PipsSolver.used_dominoes
    stack,              \* the active solve() frames, outermost first
    ret,                \* value handed back by the solve() call that just returned
    raised,             \* TRUE once an exception has escaped
    op                  \* the last Board call made by a client of the Board

vars == << valid_positions, regions, available_dominoes, state, placed_dominoes,
           all_dominoes, used_dominoes, stack, ret, raised, op >>

boardVars == << valid_positions, regions, available_dominoes >>

----------------------------------------------------------------------------
(* Bounds of the model *)

\* largest number of positions of a region
MaxRegionSize == 2

\* columns of the one-row grid of the boards a client drives itself
ClientCols == 2

\* largest pip value carried by a domino handed to the Board by a client
MaxDots == 1

\* longest placed_dominoes list a client of the Board builds
MaxPlaced == 3

\* number of pip values of the tile set the modelled solver generates, the
\* standard set (StandardPips) cut down: pips 0..NumPips-1
NumPips == 3

\* largest number of get_solution() calls a client makes on one solver
MaxCalls == 2

\* columns of the one-row grid of the boards of a client that only places
PlaceCols == 2

\* cells of the one-row grid the regions handed to Region.validate lie on
ValCells == 3

\* largest pip value of the dicts handed to Region.validate
ValDots == 2

\* largest value a threshold constraint handed to Region.validate carries
ValThreshold == 3

\* largest rows and cols argument of the boards built from a description
LoadDims == 1

\* longest `dominoes` list of a description
TrayLen == 2

\* largest number of positions of a region of an extracted payload
PayloadCells == 2

\* largest retry argument of extract_puzzle
MaxRetry == 2

(* Program constants *)

\* range(7) of _generate_dominoes, the pips 0..6 of the standard set
StandardPips == 7

----------------------------------------------------------------------------
(* Python values *)

None == << >>

Some(v) == << v >>

Position(row, col) == << row, col >>

Domino(pos1, pos2, dots1, dots2) ==
    [pos1 |-> pos1, pos2 |-> pos2, dots1 |-> dots1, dots2 |-> dots2]

Constraint(constraint_type, value) ==
    [constraint_type |-> constraint_type, value |-> value]

Region(positions, constraint) == [positions |-> positions, constraint |-> constraint]

\* key=lambda p: (p.row, p.col): tuple comparison
PosLess(p, q) == p[1] < q[1] \/ (p[1] = q[1] /\ p[2] < q[2])

RECURSIVE SortedPositions(_)
\* sorted(S, key=lambda p: (p.row, p.col))
SortedPositions(S) ==
    IF S = {} THEN << >>
    ELSE LET m == CHOOSE p \in S : \A q \in S \ {p} : PosLess(p, q)
         IN  << m >> \o SortedPositions(S \ {m})

RECURSIVE SumSeq(_)
\* sum(dots)
SumSeq(s) == IF s = << >> THEN 0 ELSE Head(s) + SumSeq(Tail(s))

\* set(dots)
SeqToSet(s) == { s[i] : i \in 1..Len(s) }

----------------------------------------------------------------------------
(* structures.py *)

\* Domino.get_positions
get_positions(domino) == { domino.pos1, domino.pos2 }

\* the list `dots` Region.validate collects, in ascending position order
RegionDots(region, board_state) ==
    LET filled == SortedPositions(region.positions \cap DOMAIN board_state)
    IN  [ i \in 1..Len(filled) |-> board_state[filled[i]] ]

\* Region.validate that judges a region as soon as one position is filled
validate_eager(region, board_state) ==
    LET dots == RegionDots(region, board_state)
        ct   == region.constraint.constraint_type
        v    == region.constraint.value
    IN  IF Len(dots) = 0 THEN TRUE
        ELSE IF ct = "none" THEN TRUE
        ELSE IF ct = "equal" THEN Cardinality(SeqToSet(dots)) = 1
        ELSE IF ct = "notequal" THEN Cardinality(SeqToSet(dots)) = Len(dots)
        ELSE IF ct = "greater_than" THEN (IF v = None THEN TRUE ELSE SumSeq(dots) > v[1])
        ELSE IF ct = "less_than" THEN (IF v = None THEN TRUE ELSE SumSeq(dots) < v[1])
        ELSE IF ct = "number" THEN (IF v = None THEN TRUE ELSE SumSeq(dots) = v[1])
        ELSE FALSE

\* Region.validate whose NOTEQUAL only asks for two different values
validate_notequal_weak(region, board_state) ==
    LET dots == RegionDots(region, board_state)
        ct   == region.constraint.constraint_type
        v    == region.constraint.value
    IN  IF Len(dots) < Cardinality(region.positions) THEN TRUE
        ELSE IF ct = "none" THEN TRUE
        ELSE IF ct = "equal" THEN Cardinality(SeqToSet(dots)) = 1
        ELSE IF ct = "notequal" THEN Cardinality(SeqToSet(dots)) > 1
        ELSE IF ct = "greater_than" THEN (IF v = None THEN TRUE ELSE SumSeq(dots) > v[1])
        ELSE IF ct = "less_than" THEN (IF v = None THEN TRUE ELSE SumSeq(dots) < v[1])
        ELSE IF ct = "number" THEN (IF v = None THEN TRUE ELSE SumSeq(dots) = v[1])
        ELSE FALSE

\* Region.validate with the thresholds compared with every cell, not with the sum
validate_per_cell(region, board_state) ==
    LET dots == RegionDots(region, board_state)
        ct   == region.constraint.constraint_type
        v    == region.constraint.value
    IN  IF Len(dots) < Cardinality(region.positions) THEN TRUE
        ELSE IF ct = "none" THEN TRUE
        ELSE IF ct = "equal" THEN Cardinality(SeqToSet(dots)) = 1
        ELSE IF ct = "notequal" THEN Cardinality(SeqToSet(dots)) = Len(dots)
        ELSE IF ct = "greater_than" THEN (IF v = None THEN TRUE ELSE \A i \in 1..Len(dots) : dots[i] > v[1])
        ELSE IF ct = "less_than" THEN (IF v = None THEN TRUE ELSE \A i \in 1..Len(dots) : dots[i] < v[1])
        ELSE IF ct = "number" THEN (IF v = None THEN TRUE ELSE \A i \in 1..Len(dots) : dots[i] = v[1])
        ELSE FALSE

\* Region.validate with the thresholds compared with >= and <=
validate_inclusive(region, board_state) ==
    LET dots == RegionDots(region, board_state)
        ct   == region.constraint.constraint_type
        v    == region.constraint.value
    IN  IF Len(dots) < Cardinality(region.positions) THEN TRUE
        ELSE IF ct = "none" THEN TRUE
        ELSE IF ct = "equal" THEN Cardinality(SeqToSet(dots)) = 1
        ELSE IF ct = "notequal" THEN Cardinality(SeqToSet(dots)) = Len(dots)
        ELSE IF ct = "greater_than" THEN (IF v = None THEN TRUE ELSE SumSeq(dots) >= v[1])
        ELSE IF ct = "less_than" THEN (IF v = None THEN TRUE ELSE SumSeq(dots) <= v[1])
        ELSE IF ct = "number" THEN (IF v = None THEN TRUE ELSE SumSeq(dots) = v[1])
        ELSE FALSE

\* Region.validate
validate(region, board_state) ==
    LET dots == RegionDots(region, board_state)
        ct   == region.constraint.constraint_type
        v    == region.constraint.value
    IN  IF Len(dots) < Cardinality(region.positions) THEN TRUE
        ELSE IF ct = "none" THEN TRUE
        ELSE IF ct = "equal" THEN Cardinality(SeqToSet(dots)) = 1
        ELSE IF ct = "notequal" THEN Cardinality(SeqToSet(dots)) = Len(dots)
        ELSE IF ct = "greater_than" THEN (IF v = None THEN TRUE ELSE SumSeq(dots) > v[1])
        ELSE IF ct = "less_than" THEN (IF v = None THEN TRUE ELSE SumSeq(dots) < v[1])
        ELSE IF ct = "number" THEN (IF v = None THEN TRUE ELSE SumSeq(dots) = v[1])
        ELSE FALSE

\* Board.is_valid_position
is_valid_position(vp, pos) == pos \in vp

\* Board.is_position_occupied
is_position_occupied(st, pos) == pos \in DOMAIN st

\* del self.state[pos] guarded by `if pos in self.state`
DelKey(st, pos) == [ p \in (DOMAIN st) \ {pos} |-> st[p] ]

\* self.state[pos] = dots
SetKey(st, pos, dots) == [ p \in (DOMAIN st) \cup {pos} |-> IF p = pos THEN dots ELSE st[p] ]

\* index of the first element of the list equal to x, 0 when there is none
IndexOf(list, x) ==
    IF \E i \in 1..Len(list) : list[i] = x
    THEN CHOOSE i \in 1..Len(list) : list[i] = x /\ \A j \in 1..(i - 1) : list[j] # x
    ELSE 0

\* list.remove(x): drops the first element equal to x
ListRemove(list, x) ==
    LET k == IndexOf(list, x)
    IN  [ i \in 1..(Len(list) - 1) |-> IF i < k THEN list[i] ELSE list[i + 1] ]

\* Board.remove_domino without its last two lines: the list keeps the domino
remove_domino_state_only(st, placed, domino) ==
    [state |-> DelKey(DelKey(st, domino.pos1), domino.pos2), placed |-> placed]

\* Board.remove_domino that forgets the entry of pos2 in state
remove_domino_keeps_pos2(st, placed, domino) ==
    [state  |-> DelKey(st, domino.pos1),
     placed |-> IF IndexOf(placed, domino) # 0 THEN ListRemove(placed, domino) ELSE placed]

\* Board.remove_domino that drops the oldest domino of the list
remove_domino_first(st, placed, domino) ==
    [state  |-> DelKey(DelKey(st, domino.pos1), domino.pos2),
     placed |-> IF placed # << >> THEN Tail(placed) ELSE placed]

\* Board.remove_domino: the board fields after the call
remove_domino(st, placed, domino) ==
    [state  |-> DelKey(DelKey(st, domino.pos1), domino.pos2),
     placed |-> IF IndexOf(placed, domino) # 0 THEN ListRemove(placed, domino) ELSE placed]

\* Board.place_domino without the test of is_position_occupied
place_domino_unchecked(vp, regs, st, placed, domino) ==
    IF ~is_valid_position(vp, domino.pos1) \/ ~is_valid_position(vp, domino.pos2)
    THEN [ok |-> FALSE, state |-> st, placed |-> placed]
    ELSE LET st2     == SetKey(SetKey(st, domino.pos1, domino.dots1), domino.pos2, domino.dots2)
             placed2 == Append(placed, domino)
         IN  IF \E i \in 1..Len(regs) : ~validate(regs[i], st2)
             THEN LET r == remove_domino(st2, placed2, domino)
                  IN  [ok |-> FALSE, state |-> r.state, placed |-> r.placed]
             ELSE [ok |-> TRUE, state |-> st2, placed |-> placed2]

\* Board.place_domino that returns False without undoing a rejected placement
place_domino_no_undo(vp, regs, st, placed, domino) ==
    IF ~is_valid_position(vp, domino.pos1) \/ ~is_valid_position(vp, domino.pos2)
    THEN [ok |-> FALSE, state |-> st, placed |-> placed]
    ELSE IF is_position_occupied(st, domino.pos1) \/ is_position_occupied(st, domino.pos2)
    THEN [ok |-> FALSE, state |-> st, placed |-> placed]
    ELSE LET st2     == SetKey(SetKey(st, domino.pos1, domino.dots1), domino.pos2, domino.dots2)
             placed2 == Append(placed, domino)
         IN  IF \E i \in 1..Len(regs) : ~validate(regs[i], st2)
             THEN [ok |-> FALSE, state |-> st2, placed |-> placed2]
             ELSE [ok |-> TRUE, state |-> st2, placed |-> placed2]

\* Board.place_domino: the returned bool and the board fields after the call
place_domino(vp, regs, st, placed, domino) ==
    IF ~is_valid_position(vp, domino.pos1) \/ ~is_valid_position(vp, domino.pos2)
    THEN [ok |-> FALSE, state |-> st, placed |-> placed]
    ELSE IF is_position_occupied(st, domino.pos1) \/ is_position_occupied(st, domino.pos2)
    THEN [ok |-> FALSE, state |-> st, placed |-> placed]
    ELSE LET st2     == SetKey(SetKey(st, domino.pos1, domino.dots1), domino.pos2, domino.dots2)
             placed2 == Append(placed, domino)
         IN  IF \E i \in 1..Len(regs) : ~validate(regs[i], st2)
             THEN LET r == remove_domino(st2, placed2, domino)
                  IN  [ok |-> FALSE, state |-> r.state, placed |-> r.placed]
             ELSE [ok |-> TRUE, state |-> st2, placed |-> placed2]

\* Board.is_complete that never holds of a board without valid positions
is_complete_nonempty(vp, st) == vp # {} /\ Cardinality(DOMAIN st) = Cardinality(vp)

\* Board.is_complete that counts the placed dominoes against half the positions
is_complete_by_dominoes(vp, st) == Len(placed_dominoes) = Cardinality(vp) \div 2

\* Board.is_complete that holds from half the positions on
is_complete_half(vp, st) == 2 * Cardinality(DOMAIN st) >= Cardinality(vp)

\* Board.is_complete that tolerates one empty position
is_complete_at_most_one_empty(vp, st) == Cardinality(DOMAIN st) + 1 >= Cardinality(vp)

\* Board.is_complete
is_complete(vp, st) == Cardinality(DOMAIN st) = Cardinality(vp)

\* Board.get_empty_positions without the test of is_position_occupied
get_empty_positions_all(vp, st) == SortedPositions(vp)

\* Board.get_empty_positions with key=lambda p: (p.col, p.row)
get_empty_positions_by_column(vp, st) ==
    LET swapped == SortedPositions({ Position(pos[2], pos[1]) :
                        pos \in { p \in vp : ~is_position_occupied(st, p) } })
    IN  [ i \in 1..Len(swapped) |-> Position(swapped[i][2], swapped[i][1]) ]

\* Board.get_empty_positions
get_empty_positions(vp, st) ==
    SortedPositions({ pos \in vp : ~is_position_occupied(st, pos) })

----------------------------------------------------------------------------
(* solver.py *)

RECURSIVE GenerateFromAll(_, _, _)
\* the nested loops with `for j in range(n)`: every ordered pair
GenerateFromAll(i, j, n) ==
    IF i >= n THEN << >>
    ELSE IF j >= n THEN GenerateFromAll(i + 1, 0, n)
    ELSE << << i, j >> >> \o GenerateFromAll(i, j + 1, n)

RECURSIVE GenerateFrom(_, _, _)
\* the nested loops of _generate_dominoes over range(n), resumed at (i, j)
GenerateFrom(i, j, n) ==
    IF i >= n THEN << >>
    ELSE IF j >= n THEN GenerateFrom(i + 1, i + 1, n)
    ELSE << << i, j >> >> \o GenerateFrom(i, j + 1, n)

\* PipsSolver._generate_dominoes, over the pips of the model
_generate_dominoes == GenerateFrom(0, 0, NumPips)

\* PipsSolver._get_adjacent_positions that looks down before it looks right
get_adjacent_positions_down_first(vp, pos) ==
    LET right == Position(pos[1], pos[2] + 1)
        down  == Position(pos[1] + 1, pos[2])
    IN  (IF is_valid_position(vp, down) THEN << down >> ELSE << >>)
        \o (IF is_valid_position(vp, right) THEN << right >> ELSE << >>)

\* PipsSolver._get_adjacent_positions that only looks right
get_adjacent_positions_right_only(vp, pos) ==
    LET right == Position(pos[1], pos[2] + 1)
    IN  IF is_valid_position(vp, right) THEN << right >> ELSE << >>

\* PipsSolver._get_adjacent_positions
_get_adjacent_positions(vp, pos) ==
    LET right == Position(pos[1], pos[2] + 1)
        down  == Position(pos[1] + 1, pos[2])
    IN  (IF is_valid_position(vp, right) THEN << right >> ELSE << >>)
        \o (IF is_valid_position(vp, down) THEN << down >> ELSE << >>)

\* self.used_dominoes.add(domino_tuple) left out
mark_used_skipped(used, domino_tuple) == used

\* self.used_dominoes.add((dots2, dots1)): the tuple the other way round
mark_used_reversed(used, domino_tuple) ==
    used \cup { << domino_tuple[2], domino_tuple[1] >> }

\* self.used_dominoes.add((dots1, dots1)): the double of the first pip
mark_used_first_pip(used, domino_tuple) ==
    used \cup { << domino_tuple[1], domino_tuple[1] >> }

\* self.used_dominoes.add(domino_tuple)
mark_used(used, domino_tuple) == used \cup { domino_tuple }

\* the test `domino_tuple in self.used_dominoes`
is_used(used, domino_tuple) == domino_tuple \in used

\* the element of [(dots2, dots1), (dots1, dots2)] at index oi
orientation_reversed(domino_tuple, oi) ==
    IF oi = 1 THEN << domino_tuple[2], domino_tuple[1] >> ELSE domino_tuple

\* the element of [(dots1, dots2), (dots2, dots1)] at index oi
Orientation(domino_tuple, oi) ==
    IF oi = 1 THEN domino_tuple ELSE << domino_tuple[2], domino_tuple[1] >>

(* A frame of solve(): pc is the point the frame is at, pos1 and adj the     *)
(* anchor and its neighbour list, ai, ti and oi the indices of the three     *)
(* loops, domino the local variable of the innermost loop body.              *)
EntryFrame ==
    [pc |-> "entry", pos1 |-> Position(0, 0), adj |-> << >>,
     ai |-> 1, ti |-> 1, oi |-> 1, domino |-> Domino(Position(0, 0), Position(0, 0), 0, 0)]

Top == stack[Len(stack)]

Pop == SubSeq(stack, 1, Len(stack) - 1)

SetTop(f) == [stack EXCEPT ![Len(stack)] = f]

\* the frame after the body of the innermost loop has run for (ti, oi)
AfterAttempt(f) ==
    IF f.oi = 1 THEN [f EXCEPT !.pc = "for_orient", !.oi = 2]
    ELSE [f EXCEPT !.pc = "for_tuple", !.ti = f.ti + 1, !.oi = 1]

\* the domino the innermost loop body builds for the frame's indices
FrameDomino(f) ==
    LET o == Orientation(all_dominoes[f.ti], f.oi)
    IN  Domino(f.pos1, f.adj[f.ai], o[1], o[2])

Running == stack # << >> /\ ~raised

\* the top-level solve() has returned
Done == stack = << >> /\ ret # "none" /\ ~raised

\* a client calls solver.solve()
CallSolve ==
    /\ stack = << >> /\ ret = "none" /\ ~raised
    /\ stack' = << EntryFrame >>
    /\ UNCHANGED << boardVars, state, placed_dominoes, all_dominoes, used_dominoes,
                    ret, raised, op >>

\* solve(): from the entry to the head of the `for pos2` loop, or to a return
SolveEnter ==
    /\ Running /\ Top.pc = "entry"
    /\ IF is_complete(valid_positions, state)
       THEN stack' = Pop /\ ret' = "true"
       ELSE LET empty_positions == get_empty_positions(valid_positions, state)
            IN  IF empty_positions = << >>
                THEN stack' = Pop /\ ret' = "false"
                ELSE /\ stack' = SetTop([Top EXCEPT !.pc = "for_pos2",
                            !.pos1 = empty_positions[1],
                            !.adj = _get_adjacent_positions(valid_positions, empty_positions[1]),
                            !.ai = 1, !.ti = 1, !.oi = 1])
                     /\ ret' = "none"
    /\ UNCHANGED << boardVars, state, placed_dominoes, all_dominoes, used_dominoes,
                    raised, op >>

\* `for pos2` is exhausted: the final `return False`
LoopExhausted ==
    /\ Running /\ Top.pc = "for_pos2" /\ Top.ai > Len(Top.adj)
    /\ stack' = Pop /\ ret' = "false"
    /\ UNCHANGED << boardVars, state, placed_dominoes, all_dominoes, used_dominoes,
                    raised, op >>

\* `if self.board.is_position_occupied(pos2): continue`
SkipOccupied ==
    /\ Running /\ Top.pc = "for_pos2" /\ Top.ai <= Len(Top.adj)
    /\ is_position_occupied(state, Top.adj[Top.ai])
    /\ stack' = SetTop([Top EXCEPT !.ai = Top.ai + 1])
    /\ UNCHANGED << boardVars, state, placed_dominoes, all_dominoes, used_dominoes,
                    ret, raised, op >>

\* pos2 is free: enter `for domino_tuple in self.all_dominoes`
EnterTiles ==
    /\ Running /\ Top.pc = "for_pos2" /\ Top.ai <= Len(Top.adj)
    /\ ~is_position_occupied(state, Top.adj[Top.ai])
    /\ stack' = SetTop([Top EXCEPT !.pc = "for_tuple", !.ti = 1, !.oi = 1])
    /\ UNCHANGED << boardVars, state, placed_dominoes, all_dominoes, used_dominoes,
                    ret, raised, op >>

\* `for domino_tuple` is exhausted: next pos2
TilesExhausted ==
    /\ Running /\ Top.pc = "for_tuple" /\ Top.ti > Len(all_dominoes)
    /\ stack' = SetTop([Top EXCEPT !.pc = "for_pos2", !.ai = Top.ai + 1])
    /\ UNCHANGED << boardVars, state, placed_dominoes, all_dominoes, used_dominoes,
                    ret, raised, op >>

\* `if domino_tuple in self.used_dominoes: continue`
SkipUsed ==
    /\ Running /\ Top.pc = "for_tuple" /\ Top.ti <= Len(all_dominoes)
    /\ is_used(used_dominoes, all_dominoes[Top.ti])
    /\ stack' = SetTop([Top EXCEPT !.ti = Top.ti + 1])
    /\ UNCHANGED << boardVars, state, placed_dominoes, all_dominoes, used_dominoes,
                    ret, raised, op >>

\* the frame is about to run the innermost loop body
AtAttempt ==
    /\ Running
    /\ \/ Top.pc = "for_orient"
       \/ /\ Top.pc = "for_tuple" /\ Top.ti <= Len(all_dominoes)
          /\ ~is_used(used_dominoes, all_dominoes[Top.ti])

\* place_domino returns False: next orientation
PlaceRejected ==
    /\ AtAttempt
    /\ LET r == place_domino(valid_positions, regions, state, placed_dominoes, FrameDomino(Top))
       IN  /\ ~r.ok
           /\ state' = r.state
           /\ placed_dominoes' = r.placed
    /\ stack' = SetTop(AfterAttempt(Top))
    /\ UNCHANGED << boardVars, all_dominoes, used_dominoes, ret, raised, op >>

\* place_domino returns True: mark the tile and call solve()
PlaceAccepted ==
    /\ AtAttempt
    /\ LET r == place_domino(valid_positions, regions, state, placed_dominoes, FrameDomino(Top))
       IN  /\ r.ok
           /\ state' = r.state
           /\ placed_dominoes' = r.placed
    /\ used_dominoes' = mark_used(used_dominoes, all_dominoes[Top.ti])
    /\ stack' = Append(SetTop([Top EXCEPT !.pc = "called", !.domino = FrameDomino(Top)]),
                       EntryFrame)
    /\ UNCHANGED << boardVars, all_dominoes, ret, raised, op >>

\* the nested solve() returned True and the frame undoes its placement before
\* it returns True itself
return_true_after_undo ==
    /\ Running /\ Top.pc = "called" /\ ret = "true"
    /\ LET r == remove_domino(state, placed_dominoes, Top.domino)
       IN  /\ state' = r.state
           /\ placed_dominoes' = r.placed
    /\ used_dominoes' = used_dominoes \ { all_dominoes[Top.ti] }
    /\ stack' = Pop
    /\ UNCHANGED << boardVars, all_dominoes, ret, raised, op >>

\* `if self.solve(): return True`
ReturnTrue ==
    /\ Running /\ Top.pc = "called" /\ ret = "true"
    /\ stack' = Pop
    /\ UNCHANGED << boardVars, state, placed_dominoes, all_dominoes, used_dominoes,
                    ret, raised, op >>

\* the nested solve() returned False: unmark, remove, next orientation
Backtrack ==
    /\ Running /\ Top.pc = "called" /\ ret = "false"
    /\ IF all_dominoes[Top.ti] \in used_dominoes
       THEN LET r == remove_domino(state, placed_dominoes, Top.domino)
            IN  /\ used_dominoes' = used_dominoes \ { all_dominoes[Top.ti] }
                /\ state' = r.state
                /\ placed_dominoes' = r.placed
                /\ stack' = SetTop(AfterAttempt(Top))
                /\ ret' = "none"
                /\ raised' = FALSE
       ELSE \* set.remove raises KeyError, which unwinds every frame
            /\ raised' = TRUE
            /\ stack' = << >>
            /\ UNCHANGED << state, placed_dominoes, used_dominoes, ret >>
    /\ UNCHANGED << boardVars, all_dominoes, op >>

\* PipsSolver.get_solution that hands out the board's own list
get_solution_no_copy(solved, placed) ==
    IF solved THEN [value |-> Some(placed), alias |-> TRUE]
    ELSE [value |-> None, alias |-> FALSE]

\* PipsSolver.get_solution after its solve() call returned `solved`: the
\* returned Optional list, and whether it is the list object of the board;
\* placed_dominoes[:] is a new list
get_solution(solved, placed) ==
    IF solved THEN [value |-> Some(placed), alias |-> FALSE]
    ELSE [value |-> None, alias |-> FALSE]

----------------------------------------------------------------------------
(* Construction *)

\* the positions boards and regions are drawn from: a grid of 2 rows and 3 columns
Grid == { Position(r, c) : r \in 0..1, c \in 0..2 }

\* the boards: every set of at most four positions of the grid (room for two
\* dominoes), holes, odd sizes and disconnected parts included
Boards == { S \in SUBSET Grid : Cardinality(S) <= 4 }

\* the values a threshold constraint carries
ConstraintValues == { 1, 4 }

\* the constraints of the regions
Constraints ==
    { Constraint(ct, None) : ct \in { "none", "equal", "notequal" } }
    \cup { Constraint(ct, Some(v)) : ct \in { "greater_than", "less_than", "number" },
                                     v \in ConstraintValues }

\* the regions of the boards
Regions ==
    { Region(ps, c) : ps \in { S \in SUBSET Grid : Cardinality(S) \in 1..MaxRegionSize },
                      c \in Constraints }

\* two positions that share an edge
EdgeAdjacent(p, q) ==
    \/ p[1] = q[1] /\ (p[2] = q[2] + 1 \/ q[2] = p[2] + 1)
    \/ p[2] = q[2] /\ (p[1] = q[1] + 1 \/ q[1] = p[1] + 1)

\* regions that are one domino-shaped cage with an equal or notequal constraint
CageRegions ==
    { Region({ pq[1], pq[2] }, Constraint(ct, None)) :
        pq \in { x \in Grid \X Grid : EdgeAdjacent(x[1], x[2]) }, ct \in { "equal", "notequal" } }

\* the region lists of the boards: no region, one region, or two disjoint cages
RegionLists ==
    { << >> } \cup { << r >> : r \in Regions }
    \cup { rr \in CageRegions \X CageRegions : rr[1].positions \cap rr[2].positions = {} }

\* the positions of the boards a client drives itself
ClientGrid == { Position(0, c) : c \in 0..(ClientCols - 1) }

\* the region lists of the boards a client drives itself
ClientRegionLists ==
    { << >> }
    \cup { << Region(ps, c) >> : ps \in (SUBSET ClientGrid) \ { {} },
                                 c \in { Constraint("equal", None), Constraint("number", Some(1)) } }

\* the tile lists a description restricts the inventory to
Inventories == { Some(<< << 0, 0 >> >>), Some(<< << 0, 0 >>, << 1, 1 >> >>) }

\* the descriptions boards are built from: the regions and the `dominoes` key
Descriptions ==
    { [regions |-> rl, dominoes |-> None] : rl \in RegionLists }
    \cup { [regions |-> << >>, dominoes |-> inv] : inv \in Inventories }

\* Board.__init__ that looks at rows and cols before valid_positions
board_valid_positions_rectangle_first(rows, cols, valid) ==
    IF rows # None /\ cols # None
    THEN { Position(r, c) : r \in 0..(rows[1] - 1), c \in 0..(cols[1] - 1) }
    ELSE IF valid # None THEN valid[1]
    ELSE {}

\* Board.__init__: the valid positions of the new board
BoardValidPositions(rows, cols, valid) ==
    IF valid # None THEN valid[1]
    ELSE IF rows # None /\ cols # None
    THEN { Position(r, c) : r \in 0..(rows[1] - 1), c \in 0..(cols[1] - 1) }
    ELSE {}

\* the empty dict
EmptyState == [ p \in {} |-> 0 ]

NoDomino == Domino(Position(0, 0), Position(0, 0), 0, 0)

\* the description without keys
NoDescription ==
    [rows |-> None, cols |-> None, regions |-> << >>, valid_positions |-> None,
     dominoes |-> None]

\* extract_puzzle not called
NoExtract ==
    [status |-> "idle", retry |-> 0, attempt |-> 0, calls |-> 0, last_err |-> None,
     prior_errors |-> None, response |-> None, data |-> None, error |-> None]

\* no Board call made by a client yet
NoOp == [name |-> "none", ok |-> TRUE, present |-> FALSE, undo |-> FALSE,
         domino |-> NoDomino, pre_state |-> EmptyState, pre_placed |-> << >>,
         result |-> None, alias |-> FALSE, calls |-> 0, desc |-> NoDescription,
         extract |-> NoExtract]

\* Board(...) followed by PipsSolver(board)
Init ==
    /\ \E S \in Boards : valid_positions = BoardValidPositions(None, None, Some(S))
    /\ \E desc \in Descriptions :
          /\ regions = desc.regions
          /\ available_dominoes = desc.dominoes
    /\ state = EmptyState
    /\ placed_dominoes = << >>
    /\ all_dominoes = _generate_dominoes
    /\ used_dominoes = {}
    /\ stack = << >>
    /\ ret = "none"
    /\ raised = FALSE
    /\ op = NoOp

Next ==
    \/ CallSolve
    \/ SolveEnter
    \/ LoopExhausted
    \/ SkipOccupied
    \/ EnterTiles
    \/ TilesExhausted
    \/ SkipUsed
    \/ PlaceRejected
    \/ PlaceAccepted
    \/ ReturnTrue
    \/ Backtrack

Spec == Init /\ [][Next]_vars

\* the descriptions of the boards the search is run to its end on: no region or
\* one domino-shaped cage, or a restricted inventory
TermDescriptions ==
    { [regions |-> rl, dominoes |-> None] : rl \in { << >> } \cup { << r >> : r \in CageRegions } }
    \cup { [regions |-> << >>, dominoes |-> inv] : inv \in Inventories }

\* Board(...) followed by PipsSolver(board), for the descriptions above
InitTerm ==
    /\ \E S \in Boards : valid_positions = BoardValidPositions(None, None, Some(S))
    /\ \E desc \in TermDescriptions :
          /\ regions = desc.regions
          /\ available_dominoes = desc.dominoes
    /\ state = EmptyState
    /\ placed_dominoes = << >>
    /\ all_dominoes = _generate_dominoes
    /\ used_dominoes = {}
    /\ stack = << >>
    /\ ret = "none"
    /\ raised = FALSE
    /\ op = NoOp

\* solve() is sequential code without suspension points: a call that can take
\* a step takes it
SpecTerm == InitTerm /\ [][Next]_vars /\ WF_vars(Next)

\* the same searches, for the properties that need no scheduling assumption
SpecSearch == InitTerm /\ [][Next]_vars

----------------------------------------------------------------------------
(* Clients of get_solution() *)

(* op.name is "get_solution" while the call runs and "solution" once it has  *)
(* returned; op.result is the returned Optional list as the client holds it, *)
(* op.alias whether that list is the board's own list object, op.calls the   *)
(* number of calls made.                                                     *)

\* a client calls solver.get_solution(), which calls solve()
CallGetSolution ==
    /\ stack = << >> /\ ~raised
    /\ op.name # "get_solution"
    /\ op.calls < MaxCalls
    /\ stack' = << EntryFrame >>
    /\ op' = [op EXCEPT !.name = "get_solution", !.calls = op.calls + 1]
    /\ UNCHANGED << boardVars, state, placed_dominoes, all_dominoes, used_dominoes,
                    ret, raised >>

\* the solve() call of get_solution() has returned: get_solution() returns
GetSolutionReturn ==
    /\ stack = << >> /\ ~raised
    /\ op.name = "get_solution" /\ ret # "none"
    /\ LET r == get_solution(ret = "true", placed_dominoes)
       IN  op' = [op EXCEPT !.name = "solution", !.ok = (ret = "true"),
                            !.result = r.value, !.alias = r.alias]
    /\ UNCHANGED << boardVars, state, placed_dominoes, all_dominoes, used_dominoes,
                    stack, ret, raised >>

\* the client pops the last element of the list it was returned; the board's
\* list changes with it when it is the same list object
MutateSolution ==
    /\ stack = << >> /\ op.name = "solution"
    /\ op.result # None /\ op.result[1] # << >>
    /\ op' = [op EXCEPT !.result = Some(SubSeq(op.result[1], 1, Len(op.result[1]) - 1))]
    /\ placed_dominoes' = IF op.alias
                          THEN SubSeq(placed_dominoes, 1, Len(placed_dominoes) - 1)
                          ELSE placed_dominoes
    /\ UNCHANGED << boardVars, state, all_dominoes, used_dominoes, stack, ret, raised >>

NextSolution ==
    \/ Next
    \/ CallGetSolution
    \/ GetSolutionReturn
    \/ MutateSolution

SpecSolution == InitTerm /\ [][NextSolution]_vars

----------------------------------------------------------------------------
(* Board clients other than the solver *)

(* op describes the last call a client made: its name; for place_domino the  *)
(* returned bool and, when it is True, the domino and the board fields       *)
(* before the call; for remove_domino whether the domino was in              *)
(* placed_dominoes (present) and whether the call removes the domino that    *)
(* the call just before it placed (undo).                                    *)

\* the dominoes a client hands to the Board
ClientDominoes ==
    { Domino(p1, p2, d1, d2) : p1 \in ClientGrid, p2 \in ClientGrid,
                               d1 \in 0..MaxDots, d2 \in 0..MaxDots }

\* a client calls board.place_domino(domino)
ClientPlace ==
    /\ stack = << >> /\ ret = "none"
    /\ Len(placed_dominoes) < MaxPlaced
    /\ \E domino \in ClientDominoes :
          LET r == place_domino(valid_positions, regions, state, placed_dominoes, domino)
          IN  /\ state' = r.state
              /\ placed_dominoes' = r.placed
              /\ op' = IF r.ok
                       THEN [NoOp EXCEPT !.name = "place", !.ok = TRUE,
                                         !.domino = domino, !.pre_state = state,
                                         !.pre_placed = placed_dominoes]
                       ELSE [NoOp EXCEPT !.name = "place", !.ok = FALSE]
    /\ UNCHANGED << boardVars, all_dominoes, used_dominoes, stack, ret, raised >>

\* a client calls board.remove_domino(domino)
ClientRemove ==
    /\ stack = << >> /\ ret = "none"
    /\ \E domino \in ClientDominoes :
          LET r == remove_domino(state, placed_dominoes, domino)
          IN  /\ state' = r.state
              /\ placed_dominoes' = r.placed
              /\ op' = [NoOp EXCEPT !.name = "remove",
                           !.present = (IndexOf(placed_dominoes, domino) # 0),
                           !.undo = (op.name = "place" /\ op.ok /\ op.domino = domino)]
    /\ UNCHANGED << boardVars, all_dominoes, used_dominoes, stack, ret, raised >>

\* Board(...) of a client that drives the Board itself
InitBoard ==
    /\ \E S \in SUBSET ClientGrid :
          valid_positions = BoardValidPositions(None, None, Some(S))
    /\ regions \in ClientRegionLists
    /\ available_dominoes = None
    /\ state = EmptyState
    /\ placed_dominoes = << >>
    /\ all_dominoes = _generate_dominoes
    /\ used_dominoes = {}
    /\ stack = << >>
    /\ ret = "none"
    /\ raised = FALSE
    /\ op = NoOp

NextBoard ==
    \/ ClientPlace
    \/ ClientRemove

SpecBoard == InitBoard /\ [][NextBoard]_vars

----------------------------------------------------------------------------
(* A client of the Board that only places dominoes *)

\* the positions of the boards of that client
PlaceGrid == { Position(0, c) : c \in 0..(PlaceCols - 1) }

\* the pip values of the dominoes that client hands to the Board
PlacePips == { 0, 1 }

\* the dominoes that client hands to the Board: pos2 is the cell right of pos1,
\* which for the last column lies off the board, or pos2 is pos1 itself
PlaceDominoes ==
    { Domino(p1, Position(p1[1], p1[2] + 1), d1, d2) :
        p1 \in PlaceGrid, d1 \in PlacePips, d2 \in PlacePips }
    \cup { Domino(p1, p1, d[1], d[2]) : p1 \in PlaceGrid, d \in { << 0, 1 >>, << 1, 1 >> } }

\* the region lists of those boards: no region, or one region of at most
\* MaxRegionSize positions
PlaceRegionLists ==
    { << >> }
    \cup { << Region(ps, c) >> :
             ps \in { S \in SUBSET PlaceGrid : Cardinality(S) \in 1..MaxRegionSize },
             c \in { Constraint("equal", None), Constraint("number", Some(1)),
                     Constraint("greater_than", Some(1)) } }

\* Board(...) of that client
InitPlace ==
    /\ \E S \in SUBSET PlaceGrid :
          valid_positions = BoardValidPositions(None, None, Some(S))
    /\ regions \in PlaceRegionLists
    /\ available_dominoes = None
    /\ state = EmptyState
    /\ placed_dominoes = << >>
    /\ all_dominoes = _generate_dominoes
    /\ used_dominoes = {}
    /\ stack = << >>
    /\ ret = "none"
    /\ raised = FALSE
    /\ op = NoOp

\* the client calls board.place_domino(domino); op holds the domino and the
\* returned bool
PlaceCall ==
    \E domino \in PlaceDominoes :
        LET r == place_domino(valid_positions, regions, state, placed_dominoes, domino)
        IN  /\ state' = r.state
            /\ placed_dominoes' = r.placed
            /\ op' = [NoOp EXCEPT !.name = "place", !.ok = r.ok, !.domino = domino]
            /\ UNCHANGED << boardVars, all_dominoes, used_dominoes, stack, ret, raised >>

NextPlace == PlaceCall

SpecPlace == InitPlace /\ [][NextPlace]_vars

\* longest placed_dominoes list of a client that places and removes
MaxKept == 2

\* a client that keeps no record of its calls calls board.place_domino(domino)
PlaceStep ==
    /\ Len(placed_dominoes) < MaxKept
    /\ \E domino \in PlaceDominoes :
          LET r == place_domino(valid_positions, regions, state, placed_dominoes, domino)
          IN  /\ state' = r.state
              /\ placed_dominoes' = r.placed
    /\ UNCHANGED << boardVars, all_dominoes, used_dominoes, stack, ret, raised, op >>

\* that client calls board.remove_domino(domino) with any of those dominoes,
\* placed or not
RemoveStep ==
    /\ \E domino \in PlaceDominoes :
          LET r == remove_domino(state, placed_dominoes, domino)
          IN  /\ state' = r.state
              /\ placed_dominoes' = r.placed
    /\ UNCHANGED << boardVars, all_dominoes, used_dominoes, stack, ret, raised, op >>

NextPlaceRemove ==
    \/ PlaceStep
    \/ RemoveStep

SpecPlaceRemove == InitPlace /\ [][NextPlaceRemove]_vars

----------------------------------------------------------------------------
(* Region.validate called on its own *)

\* the positions of the regions and dicts handed to Region.validate
ValGrid == { Position(0, c) : c \in 0..(ValCells - 1) }

\* the constraints of those regions: the three kinds without a value, and the
\* three thresholds with and without one
ValConstraints ==
    { Constraint(ct, None) : ct \in { "none", "equal", "notequal" } }
    \cup { Constraint(ct, v) : ct \in { "greater_than", "less_than", "number" },
                               v \in { None } \cup { Some(n) : n \in 0..ValThreshold } }

\* those regions: every non-empty set of positions with every constraint
ValRegions == { Region(ps, c) : ps \in (SUBSET ValGrid) \ { {} }, c \in ValConstraints }

\* the dicts handed to Region.validate: every partial filling of the grid
ValStates == UNION { [ D -> 0..ValDots ] : D \in SUBSET ValGrid }

\* a region and a dict mapping Position to dot value
InitValidate ==
    /\ valid_positions = ValGrid
    /\ regions \in { << r >> : r \in ValRegions }
    /\ available_dominoes = None
    /\ state \in ValStates
    /\ placed_dominoes = << >>
    /\ all_dominoes = _generate_dominoes
    /\ used_dominoes = {}
    /\ stack = << >>
    /\ ret = "none"
    /\ raised = FALSE
    /\ op = NoOp

\* a client calls region.validate(board_state); op.ok holds the returned bool
ValidateCall ==
    /\ op.name = "none"
    /\ op' = [NoOp EXCEPT !.name = "validate", !.ok = validate(regions[1], state)]
    /\ UNCHANGED << boardVars, state, placed_dominoes, all_dominoes, used_dominoes,
                    stack, ret, raised >>

NextValidate == ValidateCall

SpecValidate == InitValidate /\ [][NextValidate]_vars

----------------------------------------------------------------------------
(* parser.py: a Board built from a description *)

(* A description is the dict of a puzzle file, a record with the keys rows,  *)
(* cols, valid_positions and dominoes as Optionals (None: key absent) and    *)
(* the list regions; a position dict {"row": r, "col": c} is the tuple       *)
(* <<r, c>>, a region dict the record [positions, constraint] and a          *)
(* constraint dict the record [type, value].  op.desc is the description or  *)
(* the constructor arguments a client holds, op.name "load" after            *)
(* parse_puzzle_from_dict, "board" after Board(...) and "solver" after       *)
(* PipsSolver(board).                                                        *)

\* the members of the enum ConstraintType and their values
ConstraintType ==
    [EQUAL |-> "equal", NOTEQUAL |-> "notequal", GREATER_THAN |-> "greater_than",
     LESS_THAN |-> "less_than", NUMBER |-> "number", NONE |-> "none"]

\* the dict literal of parse_constraint: the key and the member of
\* ConstraintType each entry names
type_map ==
    << << "=", "EQUAL" >>, << "!=", "NOT_EQUAL" >>, << ">", "GREATER_THAN" >>,
       << "<", "LESS_THAN" >>, << "sum", "SUM" >>, << "none", "NONE" >> >>

\* parse_constraint: building the dict literal looks every named member up,
\* and a name the enum does not have raises AttributeError; otherwise the
\* type string is looked up with ConstraintType.NONE as the default
parse_constraint(constraint_data) ==
    IF \E k \in 1..Len(type_map) : type_map[k][2] \notin DOMAIN ConstraintType
    THEN [raised |-> TRUE, value |-> Constraint(ConstraintType.NONE, None)]
    ELSE LET hits == { k \in 1..Len(type_map) : type_map[k][1] = constraint_data.type }
         IN  [raised |-> FALSE,
              value |-> Constraint(IF hits = {} THEN ConstraintType.NONE
                                   ELSE ConstraintType[type_map[CHOOSE k \in hits : TRUE][2]],
                                   constraint_data.value)]

\* parse_region
parse_region(region_data) ==
    LET c == parse_constraint(region_data.constraint)
    IN  [raised |-> c.raised,
         value |-> Region(SeqToSet(region_data.positions), c.value)]

\* (min(dots1, dots2), max(dots1, dots2))
NormalisedPair(pair) ==
    IF pair[1] <= pair[2] THEN << pair[1], pair[2] >> ELSE << pair[2], pair[1] >>

\* parse_puzzle_from_dict up to its Board(...) call: whether it raised, and
\* the arguments of the call
parse_puzzle_from_dict(data) ==
    LET parsed == [ i \in 1..Len(data.regions) |-> parse_region(data.regions[i]) ]
    IN  [raised |-> \E i \in 1..Len(parsed) : parsed[i].raised,
         rows |-> data.rows,
         cols |-> data.cols,
         regions |-> [ i \in 1..Len(parsed) |-> parsed[i].value ],
         valid_positions |-> IF data.valid_positions = None THEN None
                             ELSE Some(SeqToSet(data.valid_positions[1])),
         available_dominoes |->
             IF data.dominoes = None THEN None
             ELSE Some([ i \in 1..Len(data.dominoes[1]) |->
                            NormalisedPair(data.dominoes[1][i]) ])]

\* the type strings of the extraction schema, and two of the file format
LoadTypes ==
    { "none", "equal", "notequal", "greater_than", "less_than", "number", "=", "sum" }

\* the region lists of the descriptions: none, or one region of two cells
LoadRegionLists ==
    { << >> }
    \cup { << [positions |-> << Position(0, 0), Position(0, 1) >>,
               constraint |-> [type |-> t,
                               value |-> IF t \in { "greater_than", "less_than", "number", "sum" }
                                         THEN Some(3) ELSE None]] >> : t \in LoadTypes }

\* the rows and cols of the descriptions
LoadSizes == { None } \cup { Some(n) : n \in 0..LoadDims }

\* the valid_positions lists of the descriptions: absent, empty, two cells one
\* of which lies outside every rectangle, a cell listed twice
LoadValid ==
    { None, Some(<< >>), Some(<< Position(0, 0), Position(0, 5) >>),
      Some(<< Position(0, 1), Position(0, 0), Position(0, 1) >>) }

\* the dominoes lists of the descriptions: absent, or pip pairs in either order
LoadTrays ==
    { None }
    \cup { Some(t) : t \in UNION { [1..n -> { 0, 1 } \X { 0, 1 }] : n \in 0..TrayLen } }

LoadDescriptions ==
    { [rows |-> r, cols |-> c, regions |-> rl, valid_positions |-> v, dominoes |-> t] :
        r \in LoadSizes, c \in LoadSizes, rl \in LoadRegionLists, v \in LoadValid,
        t \in LoadTrays }

\* a client holds a description; no Board exists yet
InitLoad ==
    /\ valid_positions = {}
    /\ regions = << >>
    /\ available_dominoes = None
    /\ state = EmptyState
    /\ placed_dominoes = << >>
    /\ all_dominoes = << >>
    /\ used_dominoes = {}
    /\ stack = << >>
    /\ ret = "none"
    /\ raised = FALSE
    /\ \E d \in LoadDescriptions : op = [NoOp EXCEPT !.desc = d]

\* board = parse_puzzle_from_dict(description)
LoadPuzzle ==
    /\ op.name = "none"
    /\ LET b == parse_puzzle_from_dict(op.desc)
       IN  IF b.raised
           THEN /\ raised' = TRUE
                /\ UNCHANGED boardVars
           ELSE /\ raised' = FALSE
                /\ valid_positions' = BoardValidPositions(b.rows, b.cols, b.valid_positions)
                /\ regions' = b.regions
                /\ available_dominoes' = b.available_dominoes
    /\ op' = [op EXCEPT !.name = "load"]
    /\ UNCHANGED << state, placed_dominoes, all_dominoes, used_dominoes, stack, ret >>

\* board = Board(rows=..., cols=..., valid_positions=..., available_dominoes=...)
\* called by a client with the values of the description as arguments
ConstructBoard ==
    /\ op.name = "none"
    /\ valid_positions' =
           BoardValidPositions(op.desc.rows, op.desc.cols,
                               IF op.desc.valid_positions = None THEN None
                               ELSE Some(SeqToSet(op.desc.valid_positions[1])))
    /\ regions' = << >>
    /\ available_dominoes' = op.desc.dominoes
    /\ op' = [op EXCEPT !.name = "board"]
    /\ UNCHANGED << state, placed_dominoes, all_dominoes, used_dominoes, stack, ret,
                    raised >>

\* solver = PipsSolver(board): the inventory of the standard set
NewSolver ==
    /\ op.name \in { "load", "board" } /\ ~raised
    /\ all_dominoes' = GenerateFrom(0, 0, StandardPips)
    /\ used_dominoes' = {}
    /\ op' = [op EXCEPT !.name = "solver"]
    /\ UNCHANGED << boardVars, state, placed_dominoes, stack, ret, raised >>

NextLoad ==
    \/ LoadPuzzle
    \/ ConstructBoard
    \/ NewSolver

SpecLoad == InitLoad /\ [][NextLoad]_vars

----------------------------------------------------------------------------
(* extract.py: validation of an extracted payload *)

(* A payload is a description as the model returns it.  The value of a       *)
(* constraint is an Optional (None: no "value" key) of a JSON value, the      *)
(* record [py, n]: py is the Python type the value is decoded to ("int",     *)
(* "bool" or "str") and n its number.  An error is the Optional message of   *)
(* the ValidationError raised (None: nothing raised).  op.desc is the payload *)
(* a client holds, op.result the error of the call it made.                  *)

PyInt(n) == [py |-> "int", n |-> n]

PyBool(b) == [py |-> "bool", n |-> IF b THEN 1 ELSE 0]

PyStr == [py |-> "str", n |-> 0]

\* isinstance(value, int): bool is a subclass of int
isinstance_int(value) == value.py \in { "int", "bool" }

\* the body of the loop of semantic_validate without the arity tests
region_error_any_arity(r) ==
    LET c == r.constraint
        t == c.type
    IN  IF t \in { "equal", "notequal" }
        THEN IF c.value # None
             THEN Some("Constraint \"" \o t \o "\" must not include a value.")
             ELSE None
        ELSE IF t \in { "greater_than", "less_than", "number" }
        THEN IF c.value = None
             THEN Some("Constraint \"" \o t \o "\" must include a value.")
             ELSE IF ~isinstance_int(c.value[1]) \/ c.value[1].n < 0
             THEN Some("Constraint \"" \o t \o "\" value must be a non-negative integer.")
             ELSE None
        ELSE IF t = "none" THEN None
        ELSE Some("Unknown constraint type: " \o t)

\* the body of the loop of semantic_validate for the region r: the error it
\* raises, None when it goes on to the next region
region_error(r) ==
    LET c == r.constraint
        t == c.type
        positions == r.positions
    IN  IF t \in { "equal", "notequal" }
        THEN IF Len(positions) < 2
             THEN Some("Constraint \"" \o t \o "\" must apply to at least two cells.")
             ELSE IF c.value # None
             THEN Some("Constraint \"" \o t \o "\" must not include a value.")
             ELSE None
        ELSE IF t \in { "greater_than", "less_than", "number" }
        THEN IF c.value = None
             THEN Some("Constraint \"" \o t \o "\" must include a value.")
             ELSE IF ~isinstance_int(c.value[1]) \/ c.value[1].n < 0
             THEN Some("Constraint \"" \o t \o "\" value must be a non-negative integer.")
             ELSE IF Len(positions) < 1
             THEN Some("Constraint \"" \o t \o "\" must apply to at least one cell.")
             ELSE None
        ELSE IF t = "none" THEN None
        ELSE Some("Unknown constraint type: " \o t)

RECURSIVE SemanticFrom(_, _)
\* the loop of semantic_validate from the region at index k on
SemanticFrom(rs, k) ==
    IF k > Len(rs) THEN None
    ELSE IF region_error(rs[k]) # None THEN region_error(rs[k])
    ELSE SemanticFrom(rs, k + 1)

\* semantic_validate(payload)
semantic_validate(payload) == SemanticFrom(payload.regions, 1)

\* the rules of NYT_PIPS_SCHEMA a payload breaks, in the order of the schema
SchemaViolations(payload) ==
    (IF payload.valid_positions = None THEN << "'valid_positions' is a required property" >>
     ELSE << >>)
    \o (IF payload.dominoes = None THEN << "'dominoes' is a required property" >> ELSE << >>)
    \o (IF payload.valid_positions # None
           /\ \E i \in 1..Len(payload.valid_positions[1]) :
                 payload.valid_positions[1][i][1] < 0 \/ payload.valid_positions[1][i][2] < 0
        THEN << "Position: less than the minimum of 0" >> ELSE << >>)
    \o (IF payload.dominoes # None
           /\ \E i \in 1..Len(payload.dominoes[1]) : \E k \in 1..2 :
                 payload.dominoes[1][i][k] < 0 \/ payload.dominoes[1][i][k] > 6
        THEN << "dominoes: pip value outside 0..6" >> ELSE << >>)
    \o (IF \E i \in 1..Len(payload.regions) : Len(payload.regions[i].positions) < 1
        THEN << "Region.positions: too short" >> ELSE << >>)
    \o (IF \E i \in 1..Len(payload.regions) :
              payload.regions[i].constraint.type
                  \notin { "none", "equal", "notequal", "greater_than", "less_than", "number" }
        THEN << "Constraint.type: not one of the enum" >> ELSE << >>)
    \o (IF \E i \in 1..Len(payload.regions) :
              LET v == payload.regions[i].constraint.value
              IN  v # None /\ (v[1].py # "int" \/ v[1].n < 0)
        THEN << "Constraint.value: not an integer of at least 0" >> ELSE << >>)

\* validate(instance=payload, schema=NYT_PIPS_SCHEMA): the error of the first
\* broken rule
schema_validate(payload) ==
    IF SchemaViolations(payload) = << >> THEN None ELSE Some(SchemaViolations(payload)[1])

\* the two validation statements of extract_puzzle: structural, then
\* domain-specific
validate_payload(payload) ==
    IF schema_validate(payload) # None THEN schema_validate(payload)
    ELSE semantic_validate(payload)

\* the position lists of the regions of a payload
PayloadPositions == { [ i \in 1..n |-> Position(0, i - 1) ] : n \in 0..PayloadCells }

\* the constraint values of a payload: no key, integers, a bool, a string
PayloadValues == { None, Some(PyInt(-1)), Some(PyInt(0)), Some(PyInt(3)), Some(PyBool(TRUE)),
                   Some(PyStr) }

\* the regions of a payload: the types of the schema and one more
PayloadRegions ==
    { [positions |-> ps, constraint |-> [type |-> t, value |-> v]] :
        ps \in PayloadPositions,
        t \in { "none", "equal", "notequal", "greater_than", "less_than", "number", "sum" },
        v \in PayloadValues }

\* the regions a second region follows
PayloadFirstRegions ==
    { [positions |-> << Position(1, 0) >>, constraint |-> [type |-> "none", value |-> v]] :
        v \in { None, Some(PyInt(2)) } }
    \cup { [positions |-> << Position(1, 0) >>,
            constraint |-> [type |-> "number", value |-> Some(PyInt(2))]] }

Payloads ==
    { [rows |-> None, cols |-> None, regions |-> rl, valid_positions |-> v, dominoes |-> t] :
        rl \in { << >> } \cup { << r >> : r \in PayloadRegions }
               \cup (PayloadFirstRegions \X PayloadRegions),
        v \in { None, Some(<< Position(0, 0), Position(0, 1), Position(1, 0) >>) },
        t \in { None, Some(<< << 0, 0 >> >>), Some(<< << 0, 7 >> >>) } }

\* a client holds a payload
InitSemantic ==
    /\ valid_positions = {}
    /\ regions = << >>
    /\ available_dominoes = None
    /\ state = EmptyState
    /\ placed_dominoes = << >>
    /\ all_dominoes = << >>
    /\ used_dominoes = {}
    /\ stack = << >>
    /\ ret = "none"
    /\ raised = FALSE
    /\ \E payload \in Payloads : op = [NoOp EXCEPT !.desc = payload]

\* semantic_validate(payload) called on its own
SemanticValidateCall ==
    /\ op.name = "none"
    /\ op' = [op EXCEPT !.name = "semantic_validate", !.result = semantic_validate(op.desc),
                        !.ok = (semantic_validate(op.desc) = None)]
    /\ UNCHANGED << boardVars, state, placed_dominoes, all_dominoes, used_dominoes,
                    stack, ret, raised >>

\* validate(instance=payload, schema=NYT_PIPS_SCHEMA); semantic_validate(payload)
ValidatePayloadCall ==
    /\ op.name = "none"
    /\ op' = [op EXCEPT !.name = "validate_payload", !.result = validate_payload(op.desc),
                        !.ok = (validate_payload(op.desc) = None)]
    /\ UNCHANGED << boardVars, state, placed_dominoes, all_dominoes, used_dominoes,
                    stack, ret, raised >>

NextSemantic ==
    \/ SemanticValidateCall
    \/ ValidatePayloadCall

SpecSemantic == InitSemantic /\ [][NextSemantic]_vars

----------------------------------------------------------------------------
(* extract.py: extract_puzzle *)

(* op.extract is the frame of extract_puzzle: status is "idle" before the    *)
(* call, "running" between two iterations of its loop, "returned" or         *)
(* "raised" at its end; retry and attempt are the argument and the loop      *)
(* variable, last_err the error text of the local variable last_err, calls   *)
(* the number of call_model calls made, prior_errors the argument and        *)
(* response the outcome of the latest of them, data the returned payload and *)
(* error the text of the ValidationError that left the function.  A response *)
(* of the model is the record [kind, data]: kind "invalid_json" when         *)
(* call_model raises ValidationError, "payload" when it returns data.        *)

\* the message of call_openai and call_anthropic for undecodable output
InvalidJSON == "Model returned invalid JSON"

ModelRaised == [kind |-> "invalid_json", data |-> NoDescription]

ModelReturned(payload) == [kind |-> "payload", data |-> payload]

\* one iteration of the loop that calls the model with prior_errors=None
after_attempt_no_prior(ex, response) ==
    LET err  == IF response.kind = "invalid_json" THEN Some(InvalidJSON)
                ELSE validate_payload(response.data)
        call == [ex EXCEPT !.calls = ex.calls + 1, !.prior_errors = None,
                           !.response = Some(response)]
    IN  IF err = None
        THEN [call EXCEPT !.status = "returned", !.data = Some(response.data)]
        ELSE IF ex.attempt = ex.retry
        THEN [call EXCEPT !.last_err = err, !.status = "raised", !.error = err]
        ELSE [call EXCEPT !.last_err = err, !.attempt = ex.attempt + 1]

\* one iteration of the loop of extract_puzzle: call_model with
\* `str(last_err) if last_err else None`, then validation of what it returned
after_attempt(ex, response) ==
    LET err  == IF response.kind = "invalid_json" THEN Some(InvalidJSON)
                ELSE validate_payload(response.data)
        call == [ex EXCEPT !.calls = ex.calls + 1, !.prior_errors = ex.last_err,
                           !.response = Some(response)]
    IN  IF err = None
        THEN [call EXCEPT !.status = "returned", !.data = Some(response.data)]
        ELSE IF ex.attempt = ex.retry
        THEN [call EXCEPT !.last_err = err, !.status = "raised", !.error = err]
        ELSE [call EXCEPT !.last_err = err, !.attempt = ex.attempt + 1]

\* a payload of one region on the first cell of a board of one cell
OneRegionPayload(region_positions, constraint) ==
    [rows |-> None, cols |-> None,
     regions |-> << [positions |-> region_positions, constraint |-> constraint] >>,
     valid_positions |-> Some(<< Position(0, 0) >>), dominoes |-> Some(<< << 0, 0 >> >>)]

\* the payloads the model answers with: valid ones, and ones that break the
\* schema or a rule of semantic_validate
ModelPayloads ==
    { OneRegionPayload(<< Position(0, 0) >>, [type |-> "none", value |-> None]),
      OneRegionPayload(<< Position(0, 0) >>, [type |-> "number", value |-> Some(PyInt(0))]),
      OneRegionPayload(<< Position(0, 0) >>, [type |-> "equal", value |-> None]),
      OneRegionPayload(<< Position(0, 0) >>, [type |-> "number", value |-> None]),
      OneRegionPayload(<< >>, [type |-> "none", value |-> None]),
      OneRegionPayload(<< Position(0, 0) >>, [type |-> "sum", value |-> Some(PyInt(3))]) }

\* a client is about to call extract_puzzle(path, retry=n)
InitExtract ==
    /\ valid_positions = {}
    /\ regions = << >>
    /\ available_dominoes = None
    /\ state = EmptyState
    /\ placed_dominoes = << >>
    /\ all_dominoes = << >>
    /\ used_dominoes = {}
    /\ stack = << >>
    /\ ret = "none"
    /\ raised = FALSE
    /\ \E n \in 0..MaxRetry : op = [NoOp EXCEPT !.extract.retry = n]

\* extract_puzzle is entered: the image is loaded, last_err = None
ExtractCall ==
    /\ op.name = "none"
    /\ op' = [op EXCEPT !.name = "extract_puzzle", !.extract.status = "running"]
    /\ UNCHANGED << boardVars, state, placed_dominoes, all_dominoes, used_dominoes,
                    stack, ret, raised >>

\* an iteration in which call_model raises ValidationError
AttemptModelRaises ==
    /\ op.extract.status = "running"
    /\ op.extract.attempt <= op.extract.retry
    /\ op' = [op EXCEPT !.extract = after_attempt(op.extract, ModelRaised)]
    /\ UNCHANGED << boardVars, state, placed_dominoes, all_dominoes, used_dominoes,
                    stack, ret, raised >>

\* an iteration in which call_model returns a payload
AttemptModelReturns ==
    /\ op.extract.status = "running"
    /\ op.extract.attempt <= op.extract.retry
    /\ \E payload \in ModelPayloads :
          op' = [op EXCEPT !.extract = after_attempt(op.extract, ModelReturned(payload))]
    /\ UNCHANGED << boardVars, state, placed_dominoes, all_dominoes, used_dominoes,
                    stack, ret, raised >>

NextExtract ==
    \/ ExtractCall
    \/ AttemptModelRaises
    \/ AttemptModelReturns

SpecExtract == InitExtract /\ [][NextExtract]_vars

\* a client is about to call extract_puzzle(path, retry=n) with any integer n
\* of the model, negative ones included
InitExtractAny ==
    /\ valid_positions = {}
    /\ regions = << >>
    /\ available_dominoes = None
    /\ state = EmptyState
    /\ placed_dominoes = << >>
    /\ all_dominoes = << >>
    /\ used_dominoes = {}
    /\ stack = << >>
    /\ ret = "none"
    /\ raised = FALSE
    /\ \E n \in (0 - MaxRetry)..MaxRetry : op = [NoOp EXCEPT !.extract.retry = n]

\* range(retry + 1) is exhausted without a return or a raise: the function
\* body ends and the call returns None
ExtractFallsThrough ==
    /\ op.extract.status = "running"
    /\ op.extract.attempt > op.extract.retry
    /\ op' = [op EXCEPT !.extract.status = "returned", !.extract.data = None]
    /\ UNCHANGED << boardVars, state, placed_dominoes, all_dominoes, used_dominoes,
                    stack, ret, raised >>

NextExtractAny ==
    \/ ExtractCall
    \/ AttemptModelRaises
    \/ AttemptModelReturns
    \/ ExtractFallsThrough

SpecExtractAny == InitExtractAny /\ [][NextExtractAny]_vars

----------------------------------------------------------------------------
(* Properties of solve(), checked under Spec *)

\* the halves of placed dominoes that lie on position p
Covers(p) ==
    { ih \in (1..Len(placed_dominoes)) \X { 1, 2 } :
        (IF ih[2] = 1 THEN placed_dominoes[ih[1]].pos1 ELSE placed_dominoes[ih[1]].pos2) = p }

\* the unordered pip pair (min, max) of two pip values
TileOf(a, b) == IF a <= b THEN << a, b >> ELSE << b, a >>

\* the constraint of a region judged on the values st holds on its positions:
\* Equal all identical, NotEqual pairwise distinct, the thresholds on the sum
ConstraintSatisfied(region, st) ==
    LET dots == RegionDots(region, st)
        ct   == region.constraint.constraint_type
        v    == region.constraint.value
    IN  CASE ct = "none" -> TRUE
          [] ct = "equal" -> \A i, j \in 1..Len(dots) : dots[i] = dots[j]
          [] ct = "notequal" -> \A i, j \in 1..Len(dots) : i # j => dots[i] # dots[j]
          [] ct = "greater_than" -> v # None /\ SumSeq(dots) > v[1]
          [] ct = "less_than" -> v # None /\ SumSeq(dots) < v[1]
          [] ct = "number" -> v # None /\ SumSeq(dots) = v[1]

\* C1: when solve() returns True on a board that was empty at the call, every
\* valid position is covered by exactly one half of one placed domino, no
\* domino lies on a non-valid position, 2 * len(placed_dominoes) ==
\* len(valid_positions) and is_complete() is True.
C1_ExactCover ==
    (Done /\ ret = "true") =>
        /\ \A p \in valid_positions : Cardinality(Covers(p)) = 1
        /\ \A i \in 1..Len(placed_dominoes) :
              /\ placed_dominoes[i].pos1 \in valid_positions
              /\ placed_dominoes[i].pos2 \in valid_positions
        /\ 2 * Len(placed_dominoes) = Cardinality(valid_positions)
        /\ is_complete(valid_positions, state)

\* solve() has returned True with two dominoes on a board made of two
\* disconnected parts: a row holds two valid positions around a non-valid one
C1_Witness ==
    /\ Done /\ ret = "true" /\ Len(placed_dominoes) = 2
    /\ \E p \in valid_positions :
          /\ Position(p[1], p[2] + 1) \notin valid_positions
          /\ Position(p[1], p[2] + 2) \in valid_positions

AdjacentPairs(vp) == { pq \in vp \X vp : PosLess(pq[1], pq[2]) /\ EdgeAdjacent(pq[1], pq[2]) }

\* the sets of adjacent pairs that cover every valid position exactly once
Matchings(vp) ==
    { M \in SUBSET AdjacentPairs(vp) :
        \A p \in vp : Cardinality({ e \in M : p = e[1] \/ p = e[2] }) = 1 }

\* the pip values that occur on the tiles of the solver's inventory
InventoryPips == UNION { { all_dominoes[i][1], all_dominoes[i][2] } : i \in 1..Len(all_dominoes) }

\* some assignment of placements on edge-adjacent pairs of valid positions,
\* with pairwise distinct tile types of the inventory, covers every valid
\* position exactly once and satisfies every region
SolutionExists ==
    \E M \in Matchings(valid_positions) :
        \E f \in [valid_positions -> InventoryPips] :
            /\ \A e \in M : TileOf(f[e[1]], f[e[2]]) \in SeqToSet(all_dominoes)
            /\ \A e1, e2 \in M :
                  e1 # e2 => TileOf(f[e1[1]], f[e1[2]]) # TileOf(f[e2[1]], f[e2[2]])
            /\ \A i \in 1..Len(regions) : ConstraintSatisfied(regions[i], f)

\* C3: completeness.  If such an assignment exists solve() returns True;
\* solve() returns False only when none exists.
C3_Complete ==
    (Done /\ ret # "true") => ~SolutionExists

\* solve() has returned True with a first domino laid downwards although the
\* cell right of the anchor is a valid position: the branch to the right was
\* given up
C3_Witness ==
    /\ Done /\ ret = "true" /\ Len(placed_dominoes) = 2
    /\ placed_dominoes[1].pos2 = Position(placed_dominoes[1].pos1[1] + 1, placed_dominoes[1].pos1[2])
    /\ Position(placed_dominoes[1].pos1[1], placed_dominoes[1].pos1[2] + 1) \in valid_positions

\* C4 (contradicted by the code): with a restricted available_dominoes list
\* the solver's inventory all_dominoes is exactly that list, and every placed
\* domino has an unordered pip pair that belongs to the list.
C4_InventoryIsRestricted ==
    available_dominoes # None =>
        /\ all_dominoes = available_dominoes[1]
        /\ \A i \in 1..Len(placed_dominoes) :
              TileOf(placed_dominoes[i].dots1, placed_dominoes[i].dots2)
                  \in SeqToSet(available_dominoes[1])

\* C5 (contradicted by the code): solve() returns False whenever the restricted
\* inventory holds fewer tiles than len(valid_positions) / 2.
C5_InsufficientInventoryFails ==
    (Done /\ available_dominoes # None
          /\ 2 * Len(available_dominoes[1]) < Cardinality(valid_positions))
        => ret = "false"

\* C6: in every board state during solve() and in the state it leaves, no two
\* dominoes of placed_dominoes have the same unordered pip pair.
C6_TileUsedOnce ==
    \A i, j \in 1..Len(placed_dominoes) :
        i # j => TileOf(placed_dominoes[i].dots1, placed_dominoes[i].dots2)
                 # TileOf(placed_dominoes[j].dots1, placed_dominoes[j].dots2)

\* two dominoes are placed after the search skipped a tile that was in use
C6_Witness ==
    /\ Len(placed_dominoes) = 2
    /\ stack # << >>
    /\ TileOf(placed_dominoes[1].dots1, placed_dominoes[1].dots2) = all_dominoes[1]
    /\ TileOf(placed_dominoes[2].dots1, placed_dominoes[2].dots2) = all_dominoes[2]

\* the valid positions that hold no value
EmptyCells == valid_positions \ DOMAIN state

\* C16: every placement the solver attempts has pos1 equal to the
\* lexicographically first (row, col) empty valid position and pos2 equal to
\* the cell immediately right of it or immediately below it, and the cell
\* below is tried only after the cell to the right, when that one is a valid
\* position; every domino in placed_dominoes during and after solve() joins
\* two distinct edge-adjacent valid positions.
C16_AnchorAndNeighbour ==
    /\ AtAttempt =>
          LET d     == FrameDomino(Top)
              right == Position(d.pos1[1], d.pos1[2] + 1)
              down  == Position(d.pos1[1] + 1, d.pos1[2])
          IN  /\ d.pos1 \in EmptyCells
              /\ \A q \in EmptyCells : q = d.pos1 \/ PosLess(d.pos1, q)
              /\ d.pos2 \in { right, down }
              /\ (d.pos2 = down /\ right \in valid_positions) => Top.ai = 2
              /\ d.pos2 = right => Top.ai = 1
    /\ \A i \in 1..Len(placed_dominoes) :
          /\ placed_dominoes[i].pos1 # placed_dominoes[i].pos2
          /\ EdgeAdjacent(placed_dominoes[i].pos1, placed_dominoes[i].pos2)
          /\ get_positions(placed_dominoes[i]) \subseteq valid_positions

\* the solver is about to try the cell below the anchor with its second tile,
\* after it gave up the cell to the right, which is a valid position
C16_Witness ==
    /\ AtAttempt /\ Top.ai = 2 /\ Top.ti = 2
    /\ FrameDomino(Top).pos2 = Position(Top.pos1[1] + 1, Top.pos1[2])
    /\ Position(Top.pos1[1], Top.pos1[2] + 1) \in valid_positions
    /\ Cardinality(valid_positions) = 4

\* the nested solve() calls in progress
RecursionDepth == Len(stack) - 1

\* C17: solve() terminates; each nested solve() call runs with exactly two
\* fewer empty positions than its caller (a call at depth k runs with
\* len(valid_positions) - 2k empty positions), and the recursion depth never
\* exceeds len(valid_positions) / 2.
C17_Terminates ==
    /\ [](stack # << >> =>
            /\ 2 * RecursionDepth <= Cardinality(valid_positions)
            /\ Top.pc # "called" =>
                  Cardinality(EmptyCells) = Cardinality(valid_positions) - 2 * RecursionDepth)
    /\ <>Done

\* a nested call runs at the largest depth a board of four positions allows,
\* after the search has backtracked
C17_Witness ==
    /\ stack # << >> /\ Cardinality(valid_positions) = 4
    /\ 2 * RecursionDepth = Cardinality(valid_positions)
    /\ stack[1].ti > 1

\* a well-formed board: every region lies on the valid positions
RegionsOnBoard == \A i \in 1..Len(regions) : regions[i].positions \subseteq valid_positions

----------------------------------------------------------------------------
(* Properties checked under SpecSolution, where solve() is entered on fresh   *)
(* boards and, by later get_solution() calls, on boards it has worked on     *)

\* C15: is_complete() is True exactly when len(state) == len(valid_positions):
\* a solve() call returns True at its entry exactly in that case, and never
\* later than its entry unless a nested call returned True; on a board with
\* zero valid positions solve() returns True at once, without a nested call
\* and without placing anything, and leaves placed_dominoes and state empty.
C15_CompleteAtEntry ==
    [][ /\ (stack # << >> /\ Top.pc = "entry")
            => /\ (Cardinality(DOMAIN state) = Cardinality(valid_positions))
                    <=> (ret' = "true" /\ stack' = Pop)
               /\ (valid_positions = {})
                    => (ret' = "true" /\ stack' = << >>
                        /\ placed_dominoes' = << >> /\ state' = EmptyState)
        /\ (valid_positions = {} /\ stack # << >>) => Len(stack) = 1 /\ Top.pc = "entry"
      ]_vars

\* solve() has returned True on the board without valid positions
C15_Witness ==
    /\ valid_positions = {} /\ Done /\ ret = "true"
    /\ placed_dominoes = << >> /\ state = EmptyState

\* C19: get_empty_positions() returns exactly the valid positions that are
\* not keys of state, in ascending (row, col) order; the call solve() makes at
\* its entry does not modify the board and hands the first of them to the
\* search as its anchor; as long as state is unchanged the returned sequence
\* is the same.
C19_EmptyPositionsSorted ==
    /\ [] LET e == get_empty_positions(valid_positions, state)
          IN  /\ \A i, j \in 1..Len(e) : i < j => PosLess(e[i], e[j])
              /\ SeqToSet(e) = valid_positions \ DOMAIN state
    /\ [][ /\ (stack # << >> /\ Top.pc = "entry") =>
                 /\ UNCHANGED << boardVars, state, placed_dominoes >>
                 /\ (stack' # << >> /\ Len(stack') = Len(stack)) =>
                       stack'[Len(stack')].pos1
                           = get_empty_positions(valid_positions, state)[1]
           /\ state' = state =>
                 get_empty_positions(valid_positions', state')
                     = get_empty_positions(valid_positions, state)
         ]_vars

\* a nested solve() is at its entry with one domino placed and two empty
\* positions that lie in different rows
C19_Witness ==
    /\ stack # << >> /\ Top.pc = "entry" /\ Len(placed_dominoes) = 1
    /\ LET e == get_empty_positions(valid_positions, state)
       IN  Len(e) = 2 /\ e[1][1] # e[2][1]

\* C20: get_solution() returns a list equal to board.placed_dominoes when
\* solve() succeeds and None when it fails; the returned list is a copy, so
\* mutating it leaves board.placed_dominoes unchanged; once a list has been
\* returned no later step changes the board, so calling get_solution() again
\* returns an equal list.
C20_SolutionIsCopy ==
    [][ /\ (op.name = "get_solution" /\ op'.name = "solution") =>
              /\ ret = "true" => op'.result = Some(placed_dominoes)
              /\ ret = "false" => op'.result = None
        /\ (op.name = "solution" /\ op'.name = "solution") =>
              placed_dominoes' = placed_dominoes
        /\ op.result # None =>
              UNCHANGED << boardVars, state, placed_dominoes >>
      ]_vars

\* the second get_solution() call has returned the two placed dominoes after
\* the first call returned a list
C20_Witness ==
    /\ op.name = "solution" /\ op.calls = 2 /\ op.ok
    /\ op.result = Some(placed_dominoes) /\ Len(placed_dominoes) = 2
    /\ is_complete(valid_positions, state)

----------------------------------------------------------------------------
(* Properties of Board.place_domino, checked under SpecPlace *)

\* the dict st after the two writes of place_domino for domino d
Extended(st, d) ==
    [ p \in (DOMAIN st) \cup { d.pos1, d.pos2 } |->
        IF p = d.pos2 THEN d.dots2 ELSE IF p = d.pos1 THEN d.dots1 ELSE st[p] ]

\* place_domino(d) is accepted: both positions are valid positions, both are
\* unoccupied, and every region validates True against the extended state
Acceptable(d) ==
    /\ d.pos1 \in valid_positions /\ d.pos2 \in valid_positions
    /\ d.pos1 \notin DOMAIN state /\ d.pos2 \notin DOMAIN state
    /\ \A i \in 1..Len(regions) : validate(regions[i], Extended(state, d))

\* after a call that returned True, d is appended at the end of
\* placed_dominoes and nothing but the entries of pos1 and pos2 changed
AppendedOnly(d) ==
    /\ placed_dominoes' = Append(placed_dominoes, d)
    /\ DOMAIN state' = (DOMAIN state) \cup { d.pos1, d.pos2 }
    /\ \A p \in DOMAIN state : state'[p] = state[p]
    /\ UNCHANGED << boardVars, all_dominoes, used_dominoes >>

----------------------------------------------------------------------------
(* Properties of Region.validate, checked under SpecValidate *)

\* Region.validate has returned
Validated == op.name = "validate"

\* every position of the region has a value in the dict
Filled(region, st) == region.positions \subseteq DOMAIN st

RECURSIVE CageSum(_, _)
\* the sum of the values st holds on the positions S
CageSum(S, st) ==
    IF S = {} THEN 0
    ELSE LET p == CHOOSE q \in S : TRUE IN st[p] + CageSum(S \ {p}, st)

\* C12: vacuous pass.  Region.validate(state) returns True whenever at least
\* one of the region's positions has no value in state, for every constraint
\* kind and whatever values the other positions hold.
C12_VacuousPass ==
    (Validated /\ ~Filled(regions[1], state)) => op.ok

\* validate returned True for an Equal region of three positions two of which
\* hold different values
C12_Witness ==
    /\ Validated /\ op.ok
    /\ regions[1].constraint.constraint_type = "equal"
    /\ Cardinality(regions[1].positions) = 3
    /\ \E p, q \in regions[1].positions \cap DOMAIN state : state[p] # state[q]
    /\ Cardinality(regions[1].positions \cap DOMAIN state) = 2

\* C13: for a completely filled region Region.validate returns True for None;
\* for Equal, True iff all values of the cage are identical; for NotEqual,
\* True iff the values are pairwise distinct.
C13_EqualityKinds ==
    (Validated /\ Filled(regions[1], state)) =>
        LET ps == regions[1].positions
            ct == regions[1].constraint.constraint_type
        IN  /\ ct = "none" => op.ok
            /\ ct = "equal" => (op.ok <=> \A p, q \in ps : state[p] = state[q])
            /\ ct = "notequal" => (op.ok <=> \A p, q \in ps : p # q => state[p] # state[q])

\* validate returned False for a filled NotEqual region of three positions
\* that hold two different values
C13_Witness ==
    /\ Validated /\ ~op.ok /\ Filled(regions[1], state)
    /\ regions[1].constraint.constraint_type = "notequal"
    /\ Cardinality(regions[1].positions) = 3
    /\ Cardinality({ state[p] : p \in regions[1].positions }) = 2

\* C14: for a completely filled region the thresholds are judged on the cage
\* sum: GreaterThan(v) is True iff sum > v, LessThan(v) iff sum < v, Number(v)
\* iff sum == v.
C14_ThresholdsOnSum ==
    (Validated /\ Filled(regions[1], state) /\ regions[1].constraint.value # None) =>
        LET total == CageSum(regions[1].positions, state)
            ct    == regions[1].constraint.constraint_type
            v     == regions[1].constraint.value[1]
        IN  /\ ct = "greater_than" => (op.ok <=> total > v)
            /\ ct = "less_than" => (op.ok <=> total < v)
            /\ ct = "number" => (op.ok <=> total = v)

\* validate returned True for a filled GreaterThan(v) region none of whose
\* cells holds more than v
C14_Witness ==
    /\ Validated /\ op.ok /\ Filled(regions[1], state)
    /\ regions[1].constraint.constraint_type = "greater_than"
    /\ regions[1].constraint.value # None
    /\ \A p \in regions[1].positions : state[p] <= regions[1].constraint.value[1]

----------------------------------------------------------------------------
(* Properties of loading and construction, checked under SpecLoad *)

\* C22: when the board carries no restricted inventory (available_dominoes is
\* None) the inventory of a new solver is exactly the 28 pairs (i, j) with
\* 0 <= i <= j <= 6, each once, in ascending (i, j) order.
C22_StandardInventory ==
    (op.name = "solver" /\ available_dominoes = None) =>
        /\ Len(all_dominoes) = 28
        /\ SeqToSet(all_dominoes) = { ij \in (0..6) \X (0..6) : ij[1] <= ij[2] }
        /\ \A a, b \in 1..Len(all_dominoes) :
              a < b => PosLess(all_dominoes[a], all_dominoes[b])

\* a solver was made for a loaded board with cells and without `dominoes` key
C22_Witness ==
    /\ op.name = "solver" /\ available_dominoes = None /\ op.desc.dominoes = None
    /\ valid_positions # {}
    /\ all_dominoes[1] = << 0, 0 >> /\ all_dominoes[Len(all_dominoes)] = << 6, 6 >>

\* the type strings the extraction schema emits
SchemaTypes == { "none", "equal", "notequal", "greater_than", "less_than", "number" }

\* C23 (contradicted by the code): building a Board from a description maps
\* the constraint type strings none, equal, notequal, greater_than, less_than
\* and number of its regions to a Constraint of that kind with the given
\* value, without error.
C23_TypeStringsMapped ==
    op.name = "load" =>
        /\ ~raised
        /\ Len(regions) = Len(op.desc.regions)
        /\ \A i \in 1..Len(op.desc.regions) :
              op.desc.regions[i].constraint.type \in SchemaTypes =>
                  regions[i].constraint = Constraint(op.desc.regions[i].constraint.type,
                                                     op.desc.regions[i].constraint.value)

\* C24 (contradicted by the code): loading a description turns every pip pair
\* of its dominoes list into (min, max), keeps order and multiplicity, and
\* leaves available_dominoes None when the key is absent.
C24_DominoesNormalised ==
    op.name = "load" =>
        /\ ~raised
        /\ op.desc.dominoes = None => available_dominoes = None
        /\ op.desc.dominoes # None =>
              /\ available_dominoes # None
              /\ Len(available_dominoes[1]) = Len(op.desc.dominoes[1])
              /\ \A i \in 1..Len(op.desc.dominoes[1]) :
                    /\ available_dominoes[1][i][1] <= available_dominoes[1][i][2]
                    /\ { available_dominoes[1][i][1], available_dominoes[1][i][2] }
                         = { op.desc.dominoes[1][i][1], op.desc.dominoes[1][i][2] }

----------------------------------------------------------------------------
(* Properties of the validation of payloads, checked under SpecSemantic *)

\* the regions of the payload a client holds
PayloadRegionSet == { op.desc.regions[i] : i \in 1..Len(op.desc.regions) }

\* C26 (as stated): semantic_validate raises ValidationError for every
\* description in which an equal or notequal region has fewer than 2 positions
\* or carries a value, or a greater_than / less_than / number region lacks a
\* value or has a negative value, or a constraint type is unknown, and accepts
\* every description that breaks none of these rules.
C26_SemanticRules ==
    op.name = "semantic_validate" =>
        (op.result # None <=>
            \E r \in PayloadRegionSet :
                \/ /\ r.constraint.type \in { "equal", "notequal" }
                   /\ (Len(r.positions) < 2 \/ r.constraint.value # None)
                \/ /\ r.constraint.type \in { "greater_than", "less_than", "number" }
                   /\ \/ r.constraint.value = None
                      \/ (r.constraint.value[1].py = "int" /\ r.constraint.value[1].n < 0)
                \/ r.constraint.type \notin SchemaTypes)

\* C26 (amended): semantic_validate raises ValidationError for every
\* description in which an equal or notequal region has fewer than 2 positions
\* or carries a value, or a greater_than / less_than / number region lacks a
\* value, has a value that is not a non-negative int (a bool counts as an int)
\* or has no position, or a constraint type is unknown, and accepts every
\* description that breaks none of these rules.
C26_SemanticRulesWithArity ==
    op.name = "semantic_validate" =>
        (op.result # None <=>
            \E r \in PayloadRegionSet :
                \/ /\ r.constraint.type \in { "equal", "notequal" }
                   /\ (Len(r.positions) < 2 \/ r.constraint.value # None)
                \/ /\ r.constraint.type \in { "greater_than", "less_than", "number" }
                   /\ \/ r.constraint.value = None
                      \/ r.constraint.value[1].py \notin { "int", "bool" }
                      \/ r.constraint.value[1].n < 0
                      \/ Len(r.positions) < 1
                \/ r.constraint.type \notin SchemaTypes)

\* semantic_validate has raised for a payload whose first region passes and
\* whose second region is a number region with a value and without position
C26_Witness ==
    /\ op.name = "semantic_validate" /\ op.result # None
    /\ Len(op.desc.regions) = 2
    /\ region_error(op.desc.regions[1]) = None
    /\ op.desc.regions[2].constraint = [type |-> "number", value |-> Some(PyInt(3))]
    /\ op.desc.regions[2].positions = << >>

\* C27 (contradicted by the code): a description whose region constraint has
\* type none and carries a value is rejected by validation (the schema check
\* followed by semantic_validate), as a value on equal or notequal is.
C27_NoValueOnNone ==
    (op.name = "validate_payload"
        /\ \E r \in PayloadRegionSet :
              r.constraint.type \in { "none", "equal", "notequal" } /\ r.constraint.value # None)
        => op.result # None

----------------------------------------------------------------------------
(* Properties of extract_puzzle, checked under SpecExtract *)

\* the error of a response of the model: the one call_model raised, or the one
\* the validation of the payload raises
ResponseError(response) ==
    IF response.kind = "invalid_json" THEN Some(InvalidJSON)
    ELSE validate_payload(response.data)

\* C28: extract_puzzle(path, retry=n) with n >= 0 calls the model at most
\* n + 1 times, one call after the other; it stops at and returns the first
\* payload that passes schema validation and semantic_validate; every call
\* after a failed attempt receives the error text of the attempt before it as
\* prior_errors; when attempt n + 1 fails as well, that last ValidationError
\* leaves the function.
C28_RetryLoop ==
    [][ LET ex  == op.extract
            ex2 == op'.extract
        IN  /\ ex2.retry = ex.retry
            /\ ex2.calls <= ex2.retry + 1
            /\ ex2.calls \in { ex.calls, ex.calls + 1 }
            /\ ex.status \in { "returned", "raised" } => ex2 = ex
            /\ ex2.calls = ex.calls + 1 =>
                  /\ ex.status = "running"
                  /\ ex.calls = 0 => ex2.prior_errors = None
                  /\ ex.calls > 0 =>
                        /\ ResponseError(ex.response[1]) # None
                        /\ ex2.prior_errors = ResponseError(ex.response[1])
                  /\ LET e == ResponseError(ex2.response[1])
                     IN  /\ e = None =>
                               /\ ex2.status = "returned"
                               /\ ex2.data = Some(ex2.response[1].data)
                         /\ (e # None /\ ex2.calls = ex2.retry + 1) =>
                               /\ ex2.status = "raised"
                               /\ ex2.error = e
                         /\ (e # None /\ ex2.calls < ex2.retry + 1) =>
                               ex2.status = "running"
      ]_vars

\* extract_puzzle(path, retry=1) has returned the payload of its second call,
\* which was told that the equal region of the first payload has one cell
C28_Witness ==
    /\ op.extract.status = "returned" /\ op.extract.retry = 1 /\ op.extract.calls = 2
    /\ op.extract.prior_errors = Some("Constraint \"equal\" must apply to at least two cells.")
    /\ op.extract.data
         = Some(OneRegionPayload(<< Position(0, 0) >>, [type |-> "none", value |-> None]))

\* C37 (contradicted by the code): for every integer retry, extract_puzzle
\* either returns a payload that has passed schema validation and
\* semantic_validate or raises an error; it never returns None.
C37_ReturnsValidated ==
    op.extract.status = "returned" =>
        /\ op.extract.data # None
        /\ validate_payload(op.extract.data[1]) = None

----------------------------------------------------------------------------
(* Properties of backtracking, checked under SpecTerm *)

\* the dict that holds the pips of the dominoes of a list, one key per half
StateOf(placed) ==
    [ p \in UNION { get_positions(placed[i]) : i \in 1..Len(placed) } |->
        LET d == placed[CHOOSE i \in 1..Len(placed) : p \in get_positions(placed[i])]
        IN  IF p = d.pos1 THEN d.dots1 ELSE d.dots2 ]

\* the dominoes the first k frames of a stack placed before their nested calls
FramesPlaced(stk, k) == [ i \in 1..k |-> stk[i].domino ]

\* the tiles the first k frames of a stack marked before their nested calls
FramesUsed(stk, k) == { all_dominoes[stk[i].ti] : i \in 1..k }

\* C29: backtracking restores everything.  The frames below a running call do
\* not change while it runs; when a solve() call is entered, board.state,
\* board.placed_dominoes and used_dominoes hold exactly what the calls below
\* it placed and marked (nothing for the top-level call), and whenever a
\* solve() call, top-level or nested, returns False they hold exactly that
\* again: every placement made inside the call has been undone and every tile
\* it marked has been unmarked.
C29_BacktrackRestores ==
    [][ /\ (stack # << >> /\ stack' # << >>) =>
              \A i \in 1..(Len(stack) - 1) : i < Len(stack') => stack'[i] = stack[i]
        /\ Len(stack') = Len(stack) + 1 =>
              /\ placed_dominoes' = FramesPlaced(stack', Len(stack))
              /\ used_dominoes' = FramesUsed(stack', Len(stack))
              /\ state' = StateOf(FramesPlaced(stack', Len(stack)))
        /\ (Len(stack) = Len(stack') + 1 /\ ret' = "false") =>
              /\ \A i \in 1..Len(stack') : stack'[i].domino = stack[i].domino
                                           /\ stack'[i].ti = stack[i].ti
              /\ placed_dominoes' = FramesPlaced(stack, Len(stack) - 1)
              /\ used_dominoes' = FramesUsed(stack, Len(stack) - 1)
              /\ state' = StateOf(FramesPlaced(stack, Len(stack) - 1))
      ]_vars

\* on a board of four positions the call nested in the top-level call has
\* returned False, and the board holds the one domino of the top-level call
C29_Witness ==
    /\ Running /\ Len(stack) = 1 /\ Top.pc = "called" /\ ret = "false"
    /\ Cardinality(valid_positions) = 4
    /\ placed_dominoes = << Top.domino >>
    /\ used_dominoes = { all_dominoes[Top.ti] }

----------------------------------------------------------------------------
(* Properties of placing and removing, checked under SpecPlaceRemove *)

\* C30: in every board state reached from an empty Board by place_domino and
\* remove_domino calls every region validates True: no state contains a
\* completely filled region whose constraint is violated.
C30_RegionsAlwaysValid ==
    \A i \in 1..Len(regions) :
        /\ validate(regions[i], state)
        /\ regions[i].positions \subseteq DOMAIN state => ConstraintSatisfied(regions[i], state)

\* after a remove_domino call that left its domino in placed_dominoes and a
\* second placement, a region of two cells is completely filled
C30_Witness ==
    /\ regions # << >> /\ Cardinality(regions[1].positions) = 2
    /\ regions[1].positions \subseteq DOMAIN state
    /\ regions[1].constraint.constraint_type = "number"
    /\ Len(placed_dominoes) = 2
    /\ placed_dominoes[1].pos1 # placed_dominoes[1].pos2
    /\ placed_dominoes[2].pos1 # placed_dominoes[2].pos2

----------------------------------------------------------------------------
(* Properties of the exploration order, checked under SpecSearch *)

\* the choice the search makes for a domino on anchor p and neighbour q with
\* pips a on p and b on q: the neighbour (right 1, down 2), the index of the
\* tile in the inventory, the orientation (1: smaller pip on the anchor)
ChoiceOf(p, q, a, b) ==
    << IF q = Position(p[1], p[2] + 1) THEN 1 ELSE 2,
       IndexOf(all_dominoes, TileOf(a, b)),
       IF a <= b THEN 1 ELSE 2 >>

\* the choices of a complete assignment, anchor by anchor: M is its set of
\* pairs (anchor, neighbour) and f its pips
ChoiceSeq(M, f) ==
    LET anchors == SortedPositions({ e[1] : e \in M })
    IN  [ k \in 1..Len(anchors) |->
            LET e == CHOOSE x \in M : x[1] = anchors[k]
            IN  ChoiceOf(e[1], e[2], f[e[1]], f[e[2]]) ]

\* tuple comparison of two choices
ChoiceLess(x, y) ==
    \/ x[1] < y[1]
    \/ x[1] = y[1] /\ x[2] < y[2]
    \/ x[1] = y[1] /\ x[2] = y[2] /\ x[3] < y[3]

\* the sequence s of choices comes before the sequence t
ChoicesPrecede(s, t) ==
    \E k \in 1..Len(s) :
        /\ k <= Len(t)
        /\ ChoiceLess(s[k], t[k])
        /\ \A j \in 1..(k - 1) : s[j] = t[j]

\* a complete assignment the board accepts: tiles of the inventory, no tile
\* twice, every region validates
ValidAssignment(M, f) ==
    /\ \A e \in M : TileOf(f[e[1]], f[e[2]]) \in SeqToSet(all_dominoes)
    /\ \A e1, e2 \in M :
          e1 # e2 => TileOf(f[e1[1]], f[e1[2]]) # TileOf(f[e2[1]], f[e2[2]])
    /\ \A i \in 1..Len(regions) : validate(regions[i], f)

\* the pairs (anchor, neighbour) of the dominoes on the board
PlacedPairs == { << placed_dominoes[i].pos1, placed_dominoes[i].pos2 >> :
                    i \in 1..Len(placed_dominoes) }

\* C31: the solution left on the board when solve() returns True is the first
\* in the exploration order: it is a complete valid assignment, and no
\* complete valid assignment has a sequence of choices (anchor by anchor:
\* neighbour right before down, then tile in inventory order, then
\* orientation (dots1, dots2) before (dots2, dots1)) that comes before its own.
C31_FirstInOrder ==
    (Done /\ ret = "true") =>
        /\ PlacedPairs \in Matchings(valid_positions)
        /\ DOMAIN state = valid_positions
        /\ ValidAssignment(PlacedPairs, state)
        /\ \A M \in Matchings(valid_positions) :
              \A f \in [valid_positions -> InventoryPips] :
                  ValidAssignment(M, f) =>
                      ~ChoicesPrecede(ChoiceSeq(M, f), ChoiceSeq(PlacedPairs, state))

\* solve() has returned True with two dominoes, the first of which is not the
\* first tile of the inventory because the region on its cells rejected it
C31_Witness ==
    /\ Done /\ ret = "true" /\ Len(placed_dominoes) = 2
    /\ regions # << >>
    /\ placed_dominoes[1].dots1 # placed_dominoes[1].dots2
    /\ regions[1].positions = get_positions(placed_dominoes[1])

\* C32: once a nested solve() call has returned True no place_domino and no
\* remove_domino is executed and no tile is unmarked: from the moment the
\* board is complete until the top-level solve() has returned, every step is
\* the return of True of one more call and leaves state, placed_dominoes and
\* used_dominoes as they are.
C32_SuccessPropagates ==
    /\ [](ret = "true" => is_complete(valid_positions, state))
    /\ [][ (stack # << >> /\ (ret = "true" \/ is_complete(valid_positions, state)))
             => /\ stack' = Pop
                /\ ret' = "true"
                /\ UNCHANGED << state, placed_dominoes, used_dominoes >>
         ]_vars

\* the call nested in the top-level call has returned True on a board of two
\* dominoes and the top-level call has not returned yet
C32_Witness ==
    /\ Running /\ ret = "true" /\ Len(stack) = 1 /\ Top.pc = "called"
    /\ Len(placed_dominoes) = 2 /\ Cardinality(used_dominoes) = 2
    /\ is_complete(valid_positions, state)

CalledFrames == Cardinality({ i \in 1..Len(stack) : stack[i].pc = "called" })

\* C34: undo is last-in-first-out.  Until a call returns True,
\* placed_dominoes lists the dominoes of the calls in progress in the order
\* they were made (a call that returned True keeps its domino); every step leaves the
\* list alone, appends the domino of the running call, or drops the last
\* element; the remove_domino inside a rejecting place_domino removes the
\* domino just appended, at the last index, and the remove_domino of a
\* backtracking call removes its own domino, which is the last of the list.
C34_UndoIsLIFO ==
    /\ []((Running /\ ret # "true") =>
            placed_dominoes = FramesPlaced(stack, CalledFrames))
    /\ [][ /\ \/ placed_dominoes' = placed_dominoes
              \/ stack # << >> /\ placed_dominoes' = Append(placed_dominoes, FrameDomino(Top))
              \/ placed_dominoes # << >>
                   /\ placed_dominoes' = SubSeq(placed_dominoes, 1, Len(placed_dominoes) - 1)
           /\ (AtAttempt /\ state' = state) =>
                 LET d == FrameDomino(Top)
                     placed2 == Append(placed_dominoes, d)
                 IN  /\ IndexOf(placed2, d) = Len(placed2)
                     /\ remove_domino(state, placed2, d).placed = placed_dominoes
                     /\ placed_dominoes' = placed_dominoes
           /\ (Running /\ Top.pc = "called" /\ ret = "false") =>
                 /\ placed_dominoes # << >>
                 /\ placed_dominoes[Len(placed_dominoes)] = Top.domino
                 /\ IndexOf(placed_dominoes, Top.domino) = Len(placed_dominoes)
                 /\ placed_dominoes' = SubSeq(placed_dominoes, 1, Len(placed_dominoes) - 1)
                 /\ placed_dominoes' =
                        remove_domino(state, placed_dominoes, Top.domino).placed
         ]_vars

\* the call nested in the top-level call has undone its own placement, the
\* second of the list, and the domino of the top-level call is still there
C34_Witness ==
    /\ Running /\ Len(stack) = 2 /\ Top.pc \in {"for_orient", "for_tuple"}
    /\ Top.ti + Top.oi > 2
    /\ ret = "none"
    /\ placed_dominoes = << stack[1].domino >>
    /\ Cardinality(valid_positions) >= 4

\* every valid position before p in (row, col) order is occupied
FilledBefore(p) ==
    \A q \in valid_positions : PosLess(q, p) => is_position_occupied(state, q)

\* C35: at every point of a search started on an empty board the pos1 fields
\* of the dominoes in placed_dominoes are strictly ascending in (row, col)
\* order, and every valid position smaller than the first empty position
\* (the first element of get_empty_positions(), which is the anchor of the
\* call that runs) is occupied.
C35_AnchorsAscend ==
    /\ \A i, j \in 1..Len(placed_dominoes) :
          i < j => PosLess(placed_dominoes[i].pos1, placed_dominoes[j].pos1)
    /\ LET e == get_empty_positions(valid_positions, state)
       IN  e # << >> => FilledBefore(e[1])
    /\ (Running /\ Top.pc \notin {"entry", "called"}) =>
          /\ Top.pos1 = get_empty_positions(valid_positions, state)[1]
          /\ FilledBefore(Top.pos1)

\* two dominoes are on a board of four positions and the second is anchored
\* in the row below the first
C35_Witness ==
    /\ Running /\ Len(placed_dominoes) = 2
    /\ placed_dominoes[1].pos1[1] < placed_dominoes[2].pos1[1]
    /\ placed_dominoes[1].pos2[1] > placed_dominoes[1].pos1[1]
    /\ Cardinality(valid_positions) >= 4

\* the valid positions cannot be covered by dominoes on right/down adjacent pairs
NoPerfectMatching == Matchings(valid_positions) = {}

\* C36: on a board with an odd number of valid positions, and more generally
\* on a board whose valid positions admit no perfect matching by right/down
\* adjacent pairs, solve() never returns True and never raises, whatever the
\* regions and the inventory are: when it has returned it has returned False,
\* and state and placed_dominoes are empty again.
C36_NoMatchingNoSolution ==
    (Cardinality(valid_positions) % 2 = 1 \/ NoPerfectMatching) =>
        /\ NoPerfectMatching
        /\ ret # "true"
        /\ ~raised
        /\ (stack = << >> /\ ret # "none") =>
              /\ ret = "false"
              /\ state = EmptyState
              /\ placed_dominoes = << >>

\* solve() has returned False on a board of three positions in a row, on
\* which dominoes were placed and taken back
C36_Witness ==
    /\ Done /\ ret = "false"
    /\ Cardinality(valid_positions) = 3
    /\ Cardinality(AdjacentPairs(valid_positions)) = 2
    /\ state = EmptyState /\ placed_dominoes = << >>

\* the unordered pip pairs of the dominoes in placed_dominoes
PlacedTiles ==
    { TileOf(placed_dominoes[i].dots1, placed_dominoes[i].dots2) :
        i \in 1..Len(placed_dominoes) }

\* C38: whenever solve() is entered or has returned, in a search started with
\* an empty board and an empty used set, used_dominoes is exactly the set of
\* unordered pip pairs of the dominoes in placed_dominoes, one tile per
\* domino; and the tile a backtracking call unmarks is in the set, so that
\* used_dominoes.remove never raises KeyError.
C38_UsedMatchesPlaced ==
    /\ [](~raised)
    /\ []( ((Running /\ Top.pc = "entry") \/ ret # "none") =>
              /\ used_dominoes = PlacedTiles
              /\ Cardinality(used_dominoes) = Len(placed_dominoes) )
    /\ [][ (Running /\ Top.pc = "called" /\ ret = "false") =>
              /\ all_dominoes[Top.ti] \in used_dominoes
              /\ all_dominoes[Top.ti] = TileOf(Top.domino.dots1, Top.domino.dots2)
              /\ used_dominoes' = used_dominoes \ { all_dominoes[Top.ti] }
              /\ used_dominoes' = PlacedTiles'
         ]_vars

\* the call nested in the top-level call has returned False while the domino
\* of the top-level call lies with its larger pip on the anchor, after the
\* same tile was marked and unmarked for the other orientation
C38_Witness ==
    /\ Running /\ Len(stack) = 1 /\ Top.pc = "called" /\ ret = "false"
    /\ Top.oi = 2
    /\ placed_dominoes = << Top.domino >>
    /\ Top.domino.dots1 > Top.domino.dots2
    /\ used_dominoes = { << Top.domino.dots2, Top.domino.dots1 >> }

----------------------------------------------------------------------------
(* Properties of the Board, checked under SpecBoard *)

\* C7 (contradicted by the code): in every Board state reachable by
\* place_domino and remove_domino calls, state.keys() is a subset of
\* valid_positions and equals the union of the positions of the placed
\* dominoes, and no position is covered by two placed dominoes.
C7_StateMatchesPlaced ==
    /\ DOMAIN state \subseteq valid_positions
    /\ DOMAIN state = UNION { get_positions(placed_dominoes[i]) : i \in 1..Len(placed_dominoes) }
    /\ \A i, j \in 1..Len(placed_dominoes) :
          i # j => get_positions(placed_dominoes[i]) \cap get_positions(placed_dominoes[j]) = {}

\* C8 (contradicted by the code): whenever place_domino returns False, state
\* and placed_dominoes equal, order included, what they were before the call.
C8_PlaceAtomic ==
    [][ (op'.name = "place" /\ ~op'.ok)
            => (state' = state /\ placed_dominoes' = placed_dominoes) ]_vars

\* C9 (contradicted by the code): if place_domino(p) returns True, an
\* immediately following remove_domino(p) restores state and placed_dominoes
\* to their values before the place.
C9_PlaceRemoveRestores ==
    [][ (op'.name = "remove" /\ op'.undo)
            => (state' = op.pre_state /\ placed_dominoes' = op.pre_placed) ]_vars

\* C10 (contradicted by the code): remove_domino(d) of a domino that is not in
\* placed_dominoes leaves state and placed_dominoes unchanged.
C10_RemoveAbsentNoOp ==
    [][ (op'.name = "remove" /\ ~op'.present)
            => (state' = state /\ placed_dominoes' = placed_dominoes) ]_vars

====
